---- MODULE Spec2Model ----
(***************************************************************************)
(* RBAC authorization core of the warehouse-management application:        *)
(* permission matrix, permission merge, guard evaluators, warehouse        *)
(* resolvers, the API permission check and the usePermissions hook.        *)
(***************************************************************************)
EXTENDS Integers, Sequences, FiniteSets, TLC

VARIABLES
    \* ---- inputs and results of the pure permission functions
    inRoles,        \* the role list handed to the merge (UserRole[])
    matrixOmits,    \* <<role, capability>> entries a role's PermissionRecord omits
    mOp,            \* which function was applied last ("none" before any)
    effective,      \* result of getEffectivePermissions
    snapshot,       \* result of the database function get_user_permissions
    dbHas,          \* result of the database function has_permission, per capability
    guardReq,       \* the requirement handed to the capability guard
    guardResult     \* the capability guard's decision

VARIABLES
    \* ---- the datastore, as seen for one user
    joinShape,      \* how the embedded relation role:role_id(name) comes back
    dbRoles,        \* roles of the user's rows in wms_user_roles
    dbWarehouses    \* warehouse codes of the user's rows in wms_user_warehouses

VARIABLES
    \* ---- one API request
    apiRoute,       \* the route handler (or library function) called
    apiOpts,        \* the options handed to checkApiPermissions
    apiPc,          \* position of the request
    apiAuth,        \* outcome of supabase.auth.getUser()
    apiReads,       \* datastore reads issued by the permission check
    apiFailed,      \* the reads among them that failed
    apiEvaluated,   \* requirements the permission check evaluated
    apiLocal,       \* roles and permissions held between the two reads
    apiResult,      \* the ApiPermissionCheckResult
    handlerCtx,     \* the context the protected handler was invoked with
    handlerRan,     \* the handler's own logic touched the datastore
    response,       \* the response returned to the caller
    auditLog,       \* number of logPermissionFailure calls
    resolved        \* result of the last warehouse resolver call

VARIABLES
    \* ---- one evaluation of a guard against a context
    gRoles,         \* roles of the context
    gWarehouses,    \* warehouses of the context
    gSite,          \* the guard evaluator applied ("none" before any)
    gReq,           \* the requirement handed to it
    gAllow,         \* its decision
    gAllowMore      \* its decision when the context holds one more role, per role

VARIABLES
    \* ---- one mounted usePermissions hook
    hUser,          \* userId of useAuth ("none" for null)
    hRoles,         \* state roles
    hPermissions,   \* state permissions
    hWarehouses,    \* state warehouses
    hLoading,       \* state isLoading
    hError,         \* state error ("none" for null)
    hEffect,        \* the effect on fetchPermissionData is due to run
    hFetches,       \* the fetchPermissionData calls awaiting their reads
    hChanges,       \* assignment changes made in the datastore so far
    hOwner,         \* the user for whom the context fields were fetched
    \* GET /api/transactions
    txParam,        \* the warehouse query parameter of the request
    txReturned,     \* the ro_process rows in the response body
    rlsRows,        \* the ro_process rows a select of the signed-in user returns
    \* getWarehouseSqlFilter
    sqlInput,       \* the list of accessible warehouses handed to it
    sqlFilter,      \* the condition it returned
    \* the RO detail page and the ro_process row of one order
    roProcess,      \* the row: status and dnpb_number
    roDetail,       \* per open page: the order as loaded, or null
    dnpbInput,      \* per open page: the text of the DNPB field
    pagePc          \* per open page: where handleAdvanceStatus stands

mergeVars == <<inRoles, matrixOmits, mOp, effective, snapshot, dbHas, guardReq, guardResult>>

dbVars == <<joinShape, dbRoles, dbWarehouses>>

apiVars == <<apiRoute, apiOpts, apiPc, apiAuth, apiReads, apiFailed, apiEvaluated,
             apiLocal, apiResult, handlerCtx, handlerRan, response, auditLog, resolved>>

guardVars == <<gRoles, gWarehouses, gSite, gReq, gAllow, gAllowMore>>

hookVars == <<hUser, hRoles, hPermissions, hWarehouses, hLoading, hError, hEffect,
              hFetches, hChanges, hOwner>>

txVars == <<txParam, txReturned, rlsRows>>

\* the variables of the route handlers and pages
sqlVars == <<sqlInput, sqlFilter>>

roVars == <<roProcess, roDetail, dnpbInput, pagePc>>

restVars == <<txVars, sqlVars, roVars>>

vars == <<mergeVars, dbVars, apiVars, guardVars, hookVars, restVars>>

\* what the pure-function actions leave alone, and what the API actions do
nonMergeVars == <<dbVars, apiVars, guardVars, hookVars, restVars>>

nonApiVars == <<mergeVars, guardVars, hookVars, restVars>>

\* what the guard evaluations leave alone
nonGuardVars == <<mergeVars, dbVars, apiVars, hookVars, restVars>>

----------------------------------------------------------------------------
\* Bounds of the model

\* longest role list handed to the merge
MaxRoleRows == 3

\* longest list of warehouse codes handed to getWarehouseSqlFilter
MaxCodes == 4

\* most fetchPermissionData calls of one hook awaiting their reads at a time
MaxInFlight == 2

\* most assignment changes made in the datastore while the hook is mounted
MaxChanges == 1

\* most builds awaiting their reads at a time where each read is a step
MaxBuildsInFlight == 1

----------------------------------------------------------------------------
\* Static data (types/rbac.ts)

ALL_ROLES == <<"staff", "supervisor", "admin", "gm", "ops_manager">>

Roles == {ALL_ROLES[i] : i \in 1..Len(ALL_ROLES)}

Permissions ==
    {"view_dashboard", "view_transactions", "create_transactions",
     "edit_transactions", "view_stock", "manage_ros", "manage_users",
     "view_reports", "system_settings"}

\* PermissionValue = boolean | "own" | "all"; "absent" is a key the record lacks
PermissionValues == {"true", "false", "own", "all"}

ALL_WAREHOUSES == <<"DDD", "LJBB", "MBB", "UBB">>

Warehouses == {ALL_WAREHOUSES[i] : i \in 1..Len(ALL_WAREHOUSES)}

GLOBAL_WAREHOUSE_ACCESS_ROLES == {"admin", "gm", "ops_manager"}

PERMISSION_MATRIX ==
    [r \in Roles |->
       CASE r = "staff" ->
              [view_dashboard |-> "true", view_transactions |-> "own",
               create_transactions |-> "true", edit_transactions |-> "false",
               view_stock |-> "own", manage_ros |-> "true",
               manage_users |-> "false", view_reports |-> "false",
               system_settings |-> "false"]
         [] r = "supervisor" ->
              [view_dashboard |-> "true", view_transactions |-> "own",
               create_transactions |-> "true", edit_transactions |-> "true",
               view_stock |-> "own", manage_ros |-> "true",
               manage_users |-> "false", view_reports |-> "true",
               system_settings |-> "false"]
         [] r = "admin" ->
              [view_dashboard |-> "true", view_transactions |-> "all",
               create_transactions |-> "true", edit_transactions |-> "true",
               view_stock |-> "all", manage_ros |-> "true",
               manage_users |-> "true", view_reports |-> "true",
               system_settings |-> "true"]
         [] r = "gm" ->
              [view_dashboard |-> "true", view_transactions |-> "all",
               create_transactions |-> "false", edit_transactions |-> "false",
               view_stock |-> "all", manage_ros |-> "true",
               manage_users |-> "true", view_reports |-> "true",
               system_settings |-> "false"]
         [] r = "ops_manager" ->
              [view_dashboard |-> "true", view_transactions |-> "all",
               create_transactions |-> "false", edit_transactions |-> "false",
               view_stock |-> "all", manage_ros |-> "true",
               manage_users |-> "true", view_reports |-> "true",
               system_settings |-> "false"]]

\* A PermissionRecord with no key at all: {}
EmptyRecord == [c \in Permissions |-> "absent"]

\* The record of one role as the merge reads it: PermissionRecord is a
\* Partial<Record<..>>, so a key may be missing ("absent").
RolePermissions(r) ==
    [c \in Permissions |->
        IF <<r, c>> \in matrixOmits THEN "absent" ELSE PERMISSION_MATRIX[r][c]]

----------------------------------------------------------------------------
\* Pure functions of lib/permissions.ts

\* hasPermissionValue with the requireAll test left out
hasPermissionValue_NoRequireAll(value, requireAll) ==
    IF value = "true" \/ value = "all" THEN TRUE
    ELSE IF value = "own" THEN TRUE
    ELSE FALSE

hasPermissionValue(value, requireAll) ==
    IF value = "true" \/ value = "all" THEN TRUE
    ELSE IF requireAll THEN FALSE
    ELSE IF value = "own" THEN TRUE
    ELSE FALSE

\* MergeValue where the value of the role read last always replaces the stored one
MergeValue_LastWins(currentValue, value) == value

\* MergeValue where a role's false replaces whatever is stored
MergeValue_DeniedOverwrites(currentValue, value) ==
    IF value = "false" THEN "false"
    ELSE IF value = "all" THEN "all"
    ELSE IF value = "own" /\ currentValue # "all" THEN "own"
    ELSE IF value = "true" /\ currentValue # "all" /\ currentValue # "own" THEN "true"
    ELSE currentValue

\* MergeValue with the "own" branch not guarded by currentValue !== "all"
MergeValue_OwnOverwrites(currentValue, value) ==
    IF value = "all" THEN "all"
    ELSE IF value = "own" THEN "own"
    ELSE IF value = "true" /\ currentValue # "all" /\ currentValue # "own" THEN "true"
    ELSE IF currentValue = "absent" THEN value
    ELSE currentValue

\* One iteration of the inner loop of getEffectivePermissions: the new
\* effective[permission] given the stored value and the role's value.
MergeValue(currentValue, value) ==
    IF value = "all" THEN "all"
    ELSE IF value = "own" /\ currentValue # "all" THEN "own"
    ELSE IF value = "true" /\ currentValue # "all" /\ currentValue # "own" THEN "true"
    ELSE IF currentValue = "absent" THEN value
    ELSE currentValue

\* MergeRole with a missing key defaulted to granted instead of skipped
MergeRole_OmissionGrants(eff, rolePerms) ==
    [c \in Permissions |->
        MergeValue(eff[c], IF rolePerms[c] = "absent" THEN "true" ELSE rolePerms[c])]

\* The inner loop over Object.entries(rolePerms): only keys the record has.
MergeRole(eff, rolePerms) ==
    [c \in Permissions |->
        IF rolePerms[c] = "absent" THEN eff[c] ELSE MergeValue(eff[c], rolePerms[c])]

RECURSIVE MergeFrom(_, _)
MergeFrom(eff, roles) ==
    IF roles = <<>> THEN eff
    ELSE MergeFrom(MergeRole(eff, RolePermissions(Head(roles))), Tail(roles))

getEffectivePermissions(roles) == MergeFrom(EmptyRecord, roles)

checkPermission(permissions, permission, requireAll) ==
    hasPermissionValue(permissions[permission], requireAll)

Includes(list, x) == \E i \in 1..Len(list) : list[i] = x

\* hasAnyRole that looks at the first required role only
hasAnyRole_FirstOnly(userRoles, requiredRoles) ==
    IF Len(requiredRoles) = 0 THEN TRUE ELSE Includes(userRoles, requiredRoles[1])

hasAnyRole(userRoles, requiredRoles) ==
    IF Len(requiredRoles) = 0 THEN TRUE
    ELSE \E i \in 1..Len(requiredRoles) : Includes(userRoles, requiredRoles[i])

hasAllRoles(userRoles, requiredRoles) ==
    IF Len(requiredRoles) = 0 THEN TRUE
    ELSE \A i \in 1..Len(requiredRoles) : Includes(userRoles, requiredRoles[i])

roleHasGlobalWarehouseAccess(role) == role \in GLOBAL_WAREHOUSE_ACCESS_ROLES

userHasGlobalWarehouseAccess(roles) ==
    \E i \in 1..Len(roles) : roleHasGlobalWarehouseAccess(roles[i])

----------------------------------------------------------------------------
\* Database functions of migration 011

\* jsonb || jsonb: a key of the right operand replaces the left one's
JsonbConcat(left, right) ==
    [c \in Permissions |-> IF right[c] = "absent" THEN left[c] ELSE right[c]]

\* get_user_permissions: the FOR loop over the user's role rows, in row order
RECURSIVE get_user_permissions(_, _)
get_user_permissions(v_permissions, rows) ==
    IF rows = <<>> THEN v_permissions
    ELSE get_user_permissions(
            JsonbConcat(v_permissions, RolePermissions(Head(rows))), Tail(rows))

\* has_permission: the FOR loop with its EXIT on the first granting row
RECURSIVE has_permission(_, _)
has_permission(rows, p_permission) ==
    IF rows = <<>> THEN FALSE
    ELSE IF RolePermissions(Head(rows))[p_permission] # "absent"
            /\ RolePermissions(Head(rows))[p_permission] # "false"
         THEN TRUE
         ELSE has_permission(Tail(rows), p_permission)

----------------------------------------------------------------------------
\* Helpers over lists

Range(list) == {list[i] : i \in 1..Len(list)}

\* every order in which the rows of a set can be read
Orders(S) ==
    {s \in [1..Cardinality(S) -> S] : \A i, j \in 1..Cardinality(S) : s[i] = s[j] => i = j}

RoleLists == UNION {[1..n -> Roles] : n \in 0..MaxRoleRows}

----------------------------------------------------------------------------
\* The values the variables of the other parts hold while a part is not in use

NoResult ==
    [allowed |-> FALSE, userId |-> "none", roles |-> <<>>, permissions |-> EmptyRecord,
     warehouses |-> <<>>, error |-> "none", statusCode |-> 0]

NoOptions ==
    [requiredPermission |-> "none", requiredRoles |-> <<>>,
     requireAll |-> FALSE, requireAllRoles |-> FALSE, warehouseCode |-> "none"]

NoLocal == [roles |-> <<>>, permissions |-> EmptyRecord]

NoContext ==
    [invoked |-> FALSE, userId |-> "none", roles |-> <<>>,
     permissions |-> EmptyRecord, warehouses |-> <<>>]

NoResponse == [status |-> 0, code |-> "none", error |-> "none"]

NoResolved ==
    [fn |-> "none", warehouses |-> <<>>, hasAllAccess |-> "n/a", error |-> "none",
     failed |-> {}, allowGlobalAccess |-> TRUE, warehouseCode |-> "none",
     hasAccess |-> FALSE, hasSpecificAccess |-> "undefined",
     filterValue |-> <<>>, filterIsArray |-> TRUE, query |-> "none", verified |-> "n/a"]

DbIdle ==
    /\ joinShape = "object"
    /\ dbRoles = {}
    /\ dbWarehouses = {}

ApiIdle ==
    /\ apiRoute = "none"
    /\ apiOpts = NoOptions
    /\ apiPc = "idle"
    /\ apiAuth = "pending"
    /\ apiReads = {}
    /\ apiFailed = {}
    /\ apiEvaluated = {}
    /\ apiLocal = NoLocal
    /\ apiResult = NoResult
    /\ handlerCtx = NoContext
    /\ handlerRan = FALSE
    /\ response = NoResponse
    /\ auditLog = 0
    /\ resolved = NoResolved

GuardIdle ==
    /\ gRoles = <<>>
    /\ gWarehouses = <<>>
    /\ gSite = "none"
    /\ gReq = NoOptions
    /\ gAllow = FALSE
    /\ gAllowMore = [r \in Roles |-> FALSE]

HookIdle ==
    /\ hUser = "none"
    /\ hRoles = <<>>
    /\ hPermissions = EmptyRecord
    /\ hWarehouses = <<>>
    /\ hLoading = TRUE
    /\ hError = "none"
    /\ hEffect = FALSE
    /\ hFetches = <<>>
    /\ hChanges = 0
    /\ hOwner = "none"

TxIdle ==
    /\ txParam = "none"
    /\ txReturned = {}
    /\ rlsRows = {}

NoSqlFilter == [kind |-> "none", values |-> <<>>]

SqlIdle ==
    /\ sqlInput = <<>>
    /\ sqlFilter = NoSqlFilter

\* the browsers that have the page of the order open
Pages == {"p1", "p2"}

\* roDetail before fetchRODetail has set it
NullDetail == [currentStatus |-> "null", dnpbNumber |-> ""]

RoIdle ==
    /\ roProcess = [status |-> "QUEUE", dnpb_number |-> ""]
    /\ roDetail = [p \in Pages |-> NullDetail]
    /\ dnpbInput = [p \in Pages |-> ""]
    /\ pagePc = [p \in Pages |-> "idle"]

RestIdle == TxIdle /\ SqlIdle /\ RoIdle

MergeIdle ==
    /\ inRoles = <<>>
    /\ matrixOmits = {}
    /\ mOp = "none"
    /\ effective = EmptyRecord
    /\ snapshot = EmptyRecord
    /\ dbHas = [c \in Permissions |-> FALSE]
    /\ guardReq = [permission |-> "view_dashboard", requireAll |-> FALSE]
    /\ guardResult = FALSE

----------------------------------------------------------------------------
\* Specification of the pure functions: Init draws the role list, each action
\* applies one function to it.

MergeInputs(omitChoices) ==
    /\ inRoles \in RoleLists
    /\ matrixOmits \in omitChoices
    /\ DbIdle
    /\ ApiIdle
    /\ GuardIdle
    /\ HookIdle
    /\ RestIdle
    /\ mOp = "none"
    /\ effective = EmptyRecord
    /\ snapshot = EmptyRecord
    /\ dbHas = [c \in Permissions |-> FALSE]
    /\ guardReq = [permission |-> "view_dashboard", requireAll |-> FALSE]
    /\ guardResult = FALSE

\* getEffectivePermissions(roles)
GetEffectivePermissions ==
    /\ mOp = "none"
    /\ mOp' = "merge"
    /\ effective' = getEffectivePermissions(inRoles)
    /\ UNCHANGED <<inRoles, matrixOmits, snapshot, dbHas, guardReq, guardResult>>
    /\ UNCHANGED nonMergeVars

\* SELECT get_user_permissions(user): the user's role rows are the distinct
\* roles held (UNIQUE(user_id, role_id)), read in an order SQL leaves open
GetUserPermissionsDb ==
    /\ mOp = "none"
    /\ \E rows \in Orders(Range(inRoles)) :
          snapshot' = get_user_permissions(EmptyRecord, rows)
    /\ mOp' = "snapshot"
    /\ UNCHANGED <<inRoles, matrixOmits, effective, dbHas, guardReq, guardResult>>
    /\ UNCHANGED nonMergeVars

\* SELECT has_permission(user, p) for each capability
HasPermissionDb ==
    /\ mOp = "none"
    /\ \E rows \in Orders(Range(inRoles)) :
          dbHas' = [c \in Permissions |-> has_permission(rows, c)]
    /\ mOp' = "has"
    /\ UNCHANGED <<inRoles, matrixOmits, effective, snapshot, guardReq, guardResult>>
    /\ UNCHANGED nonMergeVars

\* the capability guard over the merged record, as checkApiPermissions and
\* the hook's can() apply it
CheckPermission ==
    /\ mOp = "none"
    /\ \E p \in Permissions, ra \in BOOLEAN :
          /\ guardReq' = [permission |-> p, requireAll |-> ra]
          /\ effective' = getEffectivePermissions(inRoles)
          /\ guardResult' = checkPermission(getEffectivePermissions(inRoles), p, ra)
    /\ mOp' = "check"
    /\ UNCHANGED <<inRoles, matrixOmits, snapshot, dbHas>>
    /\ UNCHANGED nonMergeVars

MergeNext ==
    \/ GetEffectivePermissions
    \/ GetUserPermissionsDb
    \/ HasPermissionDb
    \/ CheckPermission

\* the matrix as shipped: every role defines every capability
MergeInit == MergeInputs({{}})

SpecMerge == MergeInit /\ [][MergeNext]_vars

\* the matrix with at most one entry left out of one role's record
OmitInit == MergeInputs({{}} \cup {{e} : e \in Roles \X Permissions})

SpecOmit == OmitInit /\ [][MergeNext]_vars

----------------------------------------------------------------------------
\* The datastore as the code reads it

\* a set of codes as the array a read returns
ListOf(all, S) == SelectSeq(all, LAMBDA x : x \in S)

\* outcome of one datastore call: data, an error value, or an exception
ReadOutcomes == {"ok", "error", "throw"}

\* roleArray?.[0]?.name, then filter(Boolean): the names come out only when
\* the embedded relation is an array
ApiRoleNames(roleRows) == IF joinShape = "array" THEN roleRows ELSE <<>>

\* item.role?.name, then filter(Boolean): the names come out only when the
\* embedded relation is an object
ClientRoleNames(roleRows) == IF joinShape = "object" THEN roleRows ELSE <<>>

\* roles.some((role) => ["admin", "gm", "ops_manager"].includes(role))
ApiHasGlobalAccess(roles) ==
    \E i \in 1..Len(roles) : roles[i] \in {"admin", "gm", "ops_manager"}

\* the database function has_warehouse_access
has_warehouse_access(p_warehouse_code) ==
    \/ p_warehouse_code \in dbWarehouses
    \/ dbRoles \cap {"admin", "gm", "ops_manager"} # {}

\* the database function get_user_warehouses
get_user_warehouses ==
    IF dbRoles \cap {"admin", "gm", "ops_manager"} # {}
    THEN <<"DDD", "LJBB", "MBB", "UBB">>
    ELSE ListOf(ALL_WAREHOUSES, dbWarehouses)

----------------------------------------------------------------------------
\* API routes (app/api) and what each hands to withPermissionCheck

GuardedRoutes ==
    {"GET /api/transactions", "POST /api/transactions", "GET /api/users", "POST /api/users"}

RoRoutes ==
    {"GET /api/ro/process", "PATCH /api/ro/status", "PATCH /api/ro/dnpb",
     "PATCH /api/ro/articles"}

RouteOptions(route) ==
    CASE route = "GET /api/transactions" ->
           [NoOptions EXCEPT !.requiredPermission = "view_transactions"]
      [] route = "POST /api/transactions" ->
           [NoOptions EXCEPT !.requiredPermission = "create_transactions"]
      [] route = "GET /api/users" ->
           [NoOptions EXCEPT !.requiredRoles = <<"admin", "gm", "ops_manager">>]
      [] route = "POST /api/users" ->
           [NoOptions EXCEPT !.requiredRoles = <<"admin">>]
      [] OTHER -> NoOptions

\* options of other callers of withPermissionCheck and checkApiPermissions
ProbeOptions ==
    {NoOptions,
     [NoOptions EXCEPT !.requiredPermission = "view_transactions", !.requireAll = TRUE],
     [NoOptions EXCEPT !.requiredPermission = "edit_transactions", !.requireAll = TRUE],
     [NoOptions EXCEPT !.requiredPermission = "view_reports",
                       !.requiredRoles = <<"staff", "supervisor">>],
     [NoOptions EXCEPT !.requiredRoles = <<"staff", "supervisor">>,
                       !.requireAllRoles = TRUE],
     [NoOptions EXCEPT !.requiredRoles = <<"admin", "gm">>, !.requireAllRoles = TRUE]}

\* the routes and library entry points that run checkApiPermissions
UsesCheckApi(route) ==
    route \in GuardedRoutes
              \cup {"withPermissionCheck", "checkApiPermissions", "protectApiRoute"}

\* the routes whose result goes through withPermissionCheck
UsesWrapper(route) == route \in GuardedRoutes \cup {"withPermissionCheck"}

----------------------------------------------------------------------------
\* checkApiPermissions (lib/api-auth.ts)

Denied(userId, statusCode, error) ==
    [allowed |-> FALSE, userId |-> userId, roles |-> <<>>, permissions |-> EmptyRecord,
     warehouses |-> <<>>, error |-> error, statusCode |-> statusCode]

\* options.requireAllRoles ? every(..) : some(..)
ApiHasRequiredRole(roles, opts) ==
    IF opts.requireAllRoles
    THEN \A i \in 1..Len(opts.requiredRoles) : Includes(roles, opts.requiredRoles[i])
    ELSE \E i \in 1..Len(opts.requiredRoles) : Includes(roles, opts.requiredRoles[i])

RoleCheckFails(roles, opts) ==
    Len(opts.requiredRoles) > 0 /\ ~ApiHasRequiredRole(roles, opts)

PermissionCheckFails(permissions, opts) ==
    /\ opts.requiredPermission # "none"
    /\ ~hasPermissionValue(permissions[opts.requiredPermission], opts.requireAll)

\* the role check, the permission check and "All checks passed"
Decide(userId, roles, permissions, warehouses, opts) ==
    LET ctx == [allowed |-> FALSE, userId |-> userId, roles |-> roles,
                permissions |-> permissions, warehouses |-> warehouses,
                error |-> "none", statusCode |-> 0]
    IN  IF RoleCheckFails(roles, opts)
        THEN [ctx EXCEPT !.error = "Forbidden - Requires roles", !.statusCode = 403]
        ELSE IF PermissionCheckFails(permissions, opts)
        THEN [ctx EXCEPT !.error = "Forbidden - Missing required permission",
                         !.statusCode = 403]
        ELSE [ctx EXCEPT !.allowed = TRUE, !.statusCode = 200]

\* the requirement checks Decide goes through
Evaluates(roles, opts) ==
    (IF Len(opts.requiredRoles) > 0 THEN {"role"} ELSE {})
    \cup (IF ~RoleCheckFails(roles, opts) /\ opts.requiredPermission # "none"
          THEN {"permission"} ELSE {})

\* a request arrives at a route, or a caller enters one of the library functions
ApiRequest ==
    /\ apiPc = "idle"
    /\ resolved.fn = "none"
    /\ \/ \E route \in GuardedRoutes \cup RoRoutes :
             /\ apiRoute' = route
             /\ apiOpts' = RouteOptions(route)
       \/ \E route \in {"withPermissionCheck", "checkApiPermissions", "protectApiRoute"},
             opts \in ProbeOptions :
             /\ apiRoute' = route
             /\ apiOpts' = opts
       \/ \E code \in Warehouses :
             /\ apiRoute' = "checkWarehouseAccess"
             /\ apiOpts' = [NoOptions EXCEPT !.warehouseCode = code]
    /\ apiPc' = "auth"
    /\ UNCHANGED <<apiAuth, apiReads, apiFailed, apiEvaluated, apiLocal, apiResult,
                   handlerCtx, handlerRan, response, auditLog, resolved>>
    /\ UNCHANGED <<dbVars, nonApiVars>>

\* variant: an authentication error is not tested, only a missing user is
CheckApiGetUser_IgnoresAuthError ==
    /\ apiPc = "auth"
    /\ UsesCheckApi(apiRoute)
    /\ \E outcome \in {"user", "none", "authError"} :
          /\ apiAuth' = outcome
          /\ IF outcome # "none"
             THEN /\ apiPc' = "roles"
                  /\ UNCHANGED apiResult
             ELSE /\ apiPc' = "checked"
                  /\ apiResult' = Denied("none", 401, "Unauthorized - Authentication required")
    /\ UNCHANGED <<apiRoute, apiOpts, apiReads, apiFailed, apiEvaluated, apiLocal,
                   handlerCtx, handlerRan, response, auditLog, resolved>>
    /\ UNCHANGED <<dbVars, nonApiVars>>

\* supabase.auth.getUser() and the authentication test of checkApiPermissions
CheckApiGetUser ==
    /\ apiPc = "auth"
    /\ UsesCheckApi(apiRoute)
    /\ \E outcome \in {"user", "none", "authError"} :
          /\ apiAuth' = outcome
          /\ IF outcome = "user"
             THEN /\ apiPc' = "roles"
                  /\ UNCHANGED apiResult
             ELSE /\ apiPc' = "checked"
                  /\ apiResult' = Denied("none", 401, "Unauthorized - Authentication required")
    /\ UNCHANGED <<apiRoute, apiOpts, apiReads, apiFailed, apiEvaluated, apiLocal,
                   handlerCtx, handlerRan, response, auditLog, resolved>>
    /\ UNCHANGED <<dbVars, nonApiVars>>

\* the read of wms_user_roles; for a global-access role the checks follow at once
CheckApiReadRoles ==
    /\ apiPc = "roles"
    /\ apiReads' = apiReads \cup {"wms_user_roles"}
    /\ \E outcome \in ReadOutcomes :
          LET roles == ApiRoleNames(ListOf(ALL_ROLES, dbRoles))
              permissions == getEffectivePermissions(roles)
          IN  CASE outcome = "error" ->
                     /\ apiFailed' = apiFailed \cup {"wms_user_roles"}
                     /\ apiResult' = Denied("u1", 500, "Failed to verify permissions")
                     /\ apiPc' = "checked"
                     /\ UNCHANGED <<apiLocal, apiEvaluated>>
                [] outcome = "throw" ->
                     /\ apiFailed' = apiFailed \cup {"wms_user_roles"}
                     /\ apiResult' =
                           Denied("u1", 500, "Internal server error during permission check")
                     /\ apiPc' = "checked"
                     /\ UNCHANGED <<apiLocal, apiEvaluated>>
                [] outcome = "ok" /\ ApiHasGlobalAccess(roles) ->
                     /\ apiLocal' = [roles |-> roles, permissions |-> permissions]
                     /\ apiResult' =
                           Decide("u1", roles, permissions,
                                  <<"DDD", "LJBB", "MBB", "UBB">>, apiOpts)
                     /\ apiEvaluated' = Evaluates(roles, apiOpts)
                     /\ apiPc' = "checked"
                     /\ UNCHANGED apiFailed
                [] outcome = "ok" /\ ~ApiHasGlobalAccess(roles) ->
                     /\ apiLocal' = [roles |-> roles, permissions |-> permissions]
                     /\ apiPc' = "warehouses"
                     /\ UNCHANGED <<apiFailed, apiResult, apiEvaluated>>
    /\ UNCHANGED <<apiRoute, apiOpts, apiAuth, handlerCtx, handlerRan, response,
                   auditLog, resolved>>
    /\ UNCHANGED <<dbVars, nonApiVars>>

\* the read of wms_user_warehouses, then the role and permission checks
CheckApiReadWarehouses ==
    /\ apiPc = "warehouses"
    /\ apiReads' = apiReads \cup {"wms_user_warehouses"}
    /\ \E outcome \in ReadOutcomes :
          CASE outcome = "throw" ->
                 /\ apiFailed' = apiFailed \cup {"wms_user_warehouses"}
                 /\ apiResult' =
                       Denied("u1", 500, "Internal server error during permission check")
                 /\ UNCHANGED apiEvaluated
            [] outcome = "error" ->
                 \* if (!warehouseError && warehouseData): the error leaves []
                 /\ apiFailed' = apiFailed \cup {"wms_user_warehouses"}
                 /\ apiResult' =
                       Decide("u1", apiLocal.roles, apiLocal.permissions, <<>>, apiOpts)
                 /\ apiEvaluated' = Evaluates(apiLocal.roles, apiOpts)
            [] outcome = "ok" ->
                 /\ apiResult' =
                       Decide("u1", apiLocal.roles, apiLocal.permissions,
                              ListOf(ALL_WAREHOUSES, dbWarehouses), apiOpts)
                 /\ apiEvaluated' = Evaluates(apiLocal.roles, apiOpts)
                 /\ UNCHANGED apiFailed
    /\ apiPc' = "checked"
    /\ UNCHANGED <<apiRoute, apiOpts, apiAuth, apiLocal, handlerCtx, handlerRan,
                   response, auditLog, resolved>>
    /\ UNCHANGED <<dbVars, nonApiVars>>

\* variant: result.allowed is tested only for a missing user
WithPermissionCheckReturn_NoAllowedTest ==
    /\ apiPc = "checked"
    /\ UsesWrapper(apiRoute)
    /\ IF apiResult.statusCode = 401
       THEN /\ response' = [status |-> 401, code |-> "UNAUTHORIZED", error |-> apiResult.error]
            /\ apiPc' = "done"
            /\ UNCHANGED handlerCtx
       ELSE /\ handlerCtx' =
                  [invoked |-> TRUE, userId |-> apiResult.userId,
                   roles |-> apiResult.roles, permissions |-> apiResult.permissions,
                   warehouses |-> apiResult.warehouses]
            /\ apiPc' = "handler"
            /\ UNCHANGED response
    /\ UNCHANGED <<apiRoute, apiOpts, apiAuth, apiReads, apiFailed, apiEvaluated,
                   apiLocal, apiResult, handlerRan, auditLog, resolved>>
    /\ UNCHANGED <<dbVars, nonApiVars>>

\* withPermissionCheck after checkApiPermissions has returned
WithPermissionCheckReturn ==
    /\ apiPc = "checked"
    /\ UsesWrapper(apiRoute)
    /\ IF ~apiResult.allowed
       THEN /\ auditLog' = IF apiResult.userId # "none" THEN auditLog + 1 ELSE auditLog
            /\ response' =
                  [status |-> apiResult.statusCode,
                   code |-> IF apiResult.statusCode = 401 THEN "UNAUTHORIZED" ELSE "FORBIDDEN",
                   error |-> apiResult.error]
            /\ apiPc' = "done"
            /\ UNCHANGED handlerCtx
       ELSE /\ handlerCtx' =
                  [invoked |-> TRUE, userId |-> apiResult.userId,
                   roles |-> apiResult.roles, permissions |-> apiResult.permissions,
                   warehouses |-> apiResult.warehouses]
            /\ apiPc' = "handler"
            /\ UNCHANGED <<auditLog, response>>
    /\ UNCHANGED <<apiRoute, apiOpts, apiAuth, apiReads, apiFailed, apiEvaluated,
                   apiLocal, apiResult, handlerRan, resolved>>
    /\ UNCHANGED <<dbVars, nonApiVars>>

\* protectApiRoute after checkApiPermissions has returned: the deny response,
\* or null for the caller to go on
ProtectApiRouteReturn ==
    /\ apiPc = "checked"
    /\ apiRoute = "protectApiRoute"
    /\ IF ~apiResult.allowed
       THEN response' =
               [status |-> apiResult.statusCode,
                code |-> IF apiResult.statusCode = 401 THEN "UNAUTHORIZED" ELSE "FORBIDDEN",
                error |-> apiResult.error]
       ELSE UNCHANGED response
    /\ apiPc' = "done"
    /\ UNCHANGED <<apiRoute, apiOpts, apiAuth, apiReads, apiFailed, apiEvaluated,
                   apiLocal, apiResult, handlerCtx, handlerRan, auditLog, resolved>>
    /\ UNCHANGED <<dbVars, nonApiVars>>

\* withPermissionCheck on a deny when the call of logPermissionFailure throws:
\* the call stands before the return and outside any try, so the exception
\* leaves withPermissionCheck and no response is built
WithPermissionCheckLogThrows ==
    /\ apiPc = "checked"
    /\ UsesWrapper(apiRoute)
    /\ ~apiResult.allowed
    /\ apiResult.userId # "none"
    /\ apiPc' = "threw"
    /\ UNCHANGED <<apiRoute, apiOpts, apiAuth, apiReads, apiFailed, apiEvaluated,
                   apiLocal, apiResult, handlerCtx, handlerRan, response, auditLog,
                   resolved>>
    /\ UNCHANGED <<dbVars, nonApiVars>>

\* the protected handler: it answers from the datastore, or turns the request
\* away on its own validation before touching it
ProtectedHandler ==
    /\ apiPc = "handler"
    /\ UsesWrapper(apiRoute)
    /\ \E outcome \in {"ok", "error", "createUserError", "rejected"} :
          CASE outcome = "ok" ->
                 /\ handlerRan' = TRUE
                 /\ response' = [status |-> 200, code |-> "none", error |-> "none"]
            [] outcome = "error" ->
                 /\ handlerRan' = TRUE
                 /\ response' = [status |-> 500, code |-> "none", error |-> "Failed"]
            [] outcome = "createUserError" ->
                 \* error: authError?.message || "Failed to create user"
                 /\ apiRoute = "POST /api/users"
                 /\ handlerRan' = TRUE
                 /\ response' =
                       [status |-> 500, code |-> "none", error |-> "authError.message"]
            [] outcome = "rejected" ->
                 /\ apiRoute # "GET /api/users"
                 /\ UNCHANGED handlerRan
                 /\ response' = [status |-> 400, code |-> "none", error |-> "Rejected"]
    /\ apiPc' = "done"
    /\ UNCHANGED <<apiRoute, apiOpts, apiAuth, apiReads, apiFailed, apiEvaluated,
                   apiLocal, apiResult, handlerCtx, auditLog, resolved>>
    /\ UNCHANGED <<dbVars, nonApiVars>>

\* checkWarehouseAccess of lib/api-auth.ts: the authentication test
CheckWarehouseGetUser ==
    /\ apiPc = "auth"
    /\ apiRoute = "checkWarehouseAccess"
    /\ \E outcome \in {"user", "none", "authError"} :
          /\ apiAuth' = outcome
          /\ IF outcome = "user"
             THEN /\ apiPc' = "rpc"
                  /\ UNCHANGED apiResult
             ELSE /\ apiPc' = "checked"
                  /\ apiResult' = Denied("none", 401, "Unauthorized - Authentication required")
    /\ UNCHANGED <<apiRoute, apiOpts, apiReads, apiFailed, apiEvaluated, apiLocal,
                   handlerCtx, handlerRan, response, auditLog, resolved>>
    /\ UNCHANGED <<dbVars, nonApiVars>>

\* checkWarehouseAccess: the rpc of has_warehouse_access and the decision
CheckWarehouseRpc ==
    /\ apiPc = "rpc"
    /\ apiReads' = apiReads \cup {"has_warehouse_access"}
    /\ \E outcome \in ReadOutcomes :
          CASE outcome = "error" ->
                 /\ apiFailed' = apiFailed \cup {"has_warehouse_access"}
                 /\ apiResult' = Denied("u1", 500, "Failed to verify warehouse access")
                 /\ UNCHANGED apiEvaluated
            [] outcome = "throw" ->
                 /\ apiFailed' = apiFailed \cup {"has_warehouse_access"}
                 /\ apiResult' = Denied("u1", 500, "Internal server error")
                 /\ UNCHANGED apiEvaluated
            [] outcome = "ok" ->
                 /\ apiEvaluated' = {"warehouse"}
                 /\ apiResult' =
                       IF has_warehouse_access(apiOpts.warehouseCode)
                       THEN [NoResult EXCEPT !.allowed = TRUE, !.userId = "u1",
                                             !.statusCode = 200]
                       ELSE Denied("u1", 403, "Forbidden - You do not have access to warehouse")
                 /\ UNCHANGED apiFailed
    /\ apiPc' = "checked"
    /\ UNCHANGED <<apiRoute, apiOpts, apiAuth, apiLocal, handlerCtx, handlerRan,
                   response, auditLog, resolved>>
    /\ UNCHANGED <<dbVars, nonApiVars>>

\* the RO routes (app/api/ro): the authentication test that opens each handler
RoGetUser ==
    /\ apiPc = "auth"
    /\ apiRoute \in RoRoutes
    /\ \E outcome \in {"user", "none", "authError"} :
          /\ apiAuth' = outcome
          /\ IF outcome = "user"
             THEN /\ apiPc' = "handler"
                  /\ UNCHANGED response
             ELSE /\ apiPc' = "done"
                  /\ response' = [status |-> 401, code |-> "none", error |-> "Unauthorized"]
    /\ UNCHANGED <<apiRoute, apiOpts, apiReads, apiFailed, apiEvaluated, apiLocal,
                   apiResult, handlerCtx, handlerRan, auditLog, resolved>>
    /\ UNCHANGED <<dbVars, nonApiVars>>

\* the RO routes after authentication: body, validation, the ro_process call
RoHandler ==
    /\ apiPc = "handler"
    /\ apiRoute \in RoRoutes
    /\ \E outcome \in {"ok", "error", "missing", "malformed"} :
          CASE outcome = "ok" ->
                 /\ handlerRan' = TRUE
                 /\ response' = [status |-> 200, code |-> "none", error |-> "none"]
            [] outcome = "error" ->
                 /\ handlerRan' = TRUE
                 /\ response' = [status |-> 500, code |-> "none", error |-> "error.message"]
            [] outcome = "missing" ->
                 /\ apiRoute # "GET /api/ro/process"
                 /\ UNCHANGED handlerRan
                 /\ response' = [status |-> 400, code |-> "none", error |-> "Missing"]
            [] outcome = "malformed" ->
                 /\ apiRoute # "GET /api/ro/process"
                 /\ UNCHANGED handlerRan
                 /\ response' = [status |-> 500, code |-> "none", error |-> "error.message"]
    /\ apiPc' = "done"
    /\ UNCHANGED <<apiRoute, apiOpts, apiAuth, apiReads, apiFailed, apiEvaluated,
                   apiLocal, apiResult, handlerCtx, auditLog, resolved>>
    /\ UNCHANGED <<dbVars, nonApiVars>>

----------------------------------------------------------------------------
\* The warehouse resolvers

FailedReads(rolesOutcome, warehousesRead, warehousesOutcome) ==
    (IF rolesOutcome # "ok" THEN {"wms_user_roles"} ELSE {})
    \cup (IF warehousesRead /\ warehousesOutcome # "ok" THEN {"wms_user_warehouses"} ELSE {})

\* getUserWarehouseFilter of lib/api-auth.ts: the role read keeps only data
getUserWarehouseFilter(rolesOutcome, warehousesOutcome) ==
    LET roles == IF rolesOutcome = "ok" THEN ApiRoleNames(ListOf(ALL_ROLES, dbRoles))
                 ELSE <<>>
        base == [NoResolved EXCEPT !.fn = "getUserWarehouseFilter", !.hasAllAccess = "false"]
    IN  IF rolesOutcome = "throw"
        THEN [base EXCEPT !.error = "Internal error", !.failed = {"wms_user_roles"}]
        ELSE IF ApiHasGlobalAccess(roles)
        THEN [base EXCEPT !.warehouses = <<"DDD", "LJBB", "MBB", "UBB">>,
                          !.hasAllAccess = "true"]
        ELSE LET failed == FailedReads(rolesOutcome, TRUE, warehousesOutcome)
             IN  CASE warehousesOutcome = "error" ->
                        [base EXCEPT !.error = "Failed to fetch warehouse access",
                                     !.failed = failed]
                   [] warehousesOutcome = "throw" ->
                        [base EXCEPT !.error = "Internal error", !.failed = failed]
                   [] warehousesOutcome = "ok" ->
                        [base EXCEPT !.warehouses = ListOf(ALL_WAREHOUSES, dbWarehouses),
                                     !.failed = failed]

\* fetchUserRoles of lib/permissions.ts: its own catch turns every failure into
\* an empty list with an error
fetchUserRoles(rolesOutcome) ==
    IF rolesOutcome = "ok"
    THEN [roles |-> ClientRoleNames(ListOf(ALL_ROLES, dbRoles)), error |-> "none"]
    ELSE [roles |-> <<>>, error |-> "Error"]

\* fetchUserWarehouses of lib/permissions.ts: const { roles } = await fetchUserRoles
fetchUserWarehouses(rolesOutcome, warehousesOutcome) ==
    LET roles == fetchUserRoles(rolesOutcome).roles
        base == [NoResolved EXCEPT !.fn = "fetchUserWarehouses"]
    IN  IF userHasGlobalWarehouseAccess(roles)
        THEN [base EXCEPT !.warehouses = <<"DDD", "LJBB", "MBB", "UBB">>]
        ELSE LET failed == FailedReads(rolesOutcome, TRUE, warehousesOutcome)
             IN  IF warehousesOutcome = "ok"
                 THEN [base EXCEPT !.warehouses = ListOf(ALL_WAREHOUSES, dbWarehouses),
                                   !.failed = failed]
                 ELSE [base EXCEPT !.error = "Error", !.failed = failed]

\* getServerWarehouseFilter of lib/warehouse-isolation.ts
getServerWarehouseFilter(rolesOutcome, warehousesOutcome, allowGlobalAccess, warehouseCode) ==
    LET roles == ApiRoleNames(ListOf(ALL_ROLES, dbRoles))
        warehouses == ListOf(ALL_WAREHOUSES, dbWarehouses)
        base == [NoResolved EXCEPT !.fn = "getServerWarehouseFilter",
                                   !.allowGlobalAccess = allowGlobalAccess,
                                   !.warehouseCode = warehouseCode]
        \* hasAccess: true with the list, the specific test and the filter
        granted(list) ==
            [base EXCEPT
                !.hasAccess = TRUE,
                !.warehouses = list,
                !.hasSpecificAccess =
                    IF warehouseCode = "none" THEN "undefined"
                    ELSE IF Includes(list, warehouseCode) THEN "true" ELSE "false",
                !.filterValue = IF warehouseCode = "none" THEN list ELSE <<warehouseCode>>,
                !.filterIsArray = (warehouseCode = "none")]
    IN  CASE rolesOutcome = "error" ->
               [base EXCEPT !.error = "Failed to verify access",
                            !.failed = {"wms_user_roles"}]
          [] rolesOutcome = "throw" ->
               [base EXCEPT !.error = "Internal error", !.failed = {"wms_user_roles"}]
          [] rolesOutcome = "ok" /\ allowGlobalAccess /\ ApiHasGlobalAccess(roles) ->
               granted(<<"DDD", "LJBB", "MBB", "UBB">>)
          [] OTHER ->
               CASE warehousesOutcome = "error" ->
                      [base EXCEPT !.error = "Failed to fetch warehouse assignments",
                                   !.failed = {"wms_user_warehouses"}]
                 [] warehousesOutcome = "throw" ->
                      [base EXCEPT !.error = "Internal error",
                                   !.failed = {"wms_user_warehouses"}]
                 [] warehousesOutcome = "ok" /\ Len(warehouses) = 0 ->
                      [base EXCEPT !.error = "No warehouse access assigned"]
                 [] OTHER -> granted(warehouses)

\* getWarehouseFilter of lib/warehouse-isolation.ts: the same body over the
\* browser client
getWarehouseFilter(rolesOutcome, warehousesOutcome, allowGlobalAccess, warehouseCode) ==
    [getServerWarehouseFilter(rolesOutcome, warehousesOutcome, allowGlobalAccess,
                              warehouseCode)
        EXCEPT !.fn = "getWarehouseFilter"]

\* applyWarehouseFilter: null without access, else .in(..) or .eq(..)
applyWarehouseFilter(filter) ==
    [filter EXCEPT !.fn = "applyWarehouseFilter",
                   !.query = IF ~filter.hasAccess THEN "null"
                             ELSE IF filter.filterIsArray THEN "in" ELSE "eq"]

\* verifyWarehouseAccess: filter.hasAccess && filter.hasSpecificAccess === true
verifyWarehouseAccess(filter) ==
    [filter EXCEPT !.fn = "verifyWarehouseAccess",
                   !.verified = IF filter.hasAccess /\ filter.hasSpecificAccess = "true"
                                THEN "true" ELSE "false"]

\* getWarehouseSqlFilter: the condition as its kind and the codes it lists
getWarehouseSqlFilter(accessibleWarehouses) ==
    IF Len(accessibleWarehouses) = 0 THEN [kind |-> "FALSE", values |-> <<>>]
    ELSE IF Len(accessibleWarehouses) = 4 THEN [kind |-> "TRUE", values |-> <<>>]
    ELSE [kind |-> "IN", values |-> accessibleWarehouses]

ResolverIdle == apiPc = "idle" /\ resolved.fn = "none"

GetUserWarehouseFilter ==
    /\ ResolverIdle
    /\ \E rolesOutcome \in ReadOutcomes, warehousesOutcome \in ReadOutcomes :
          resolved' = getUserWarehouseFilter(rolesOutcome, warehousesOutcome)
    /\ UNCHANGED <<apiRoute, apiOpts, apiPc, apiAuth, apiReads, apiFailed, apiEvaluated,
                   apiLocal, apiResult, handlerCtx, handlerRan, response, auditLog>>
    /\ UNCHANGED <<dbVars, nonApiVars>>

FetchUserWarehouses ==
    /\ ResolverIdle
    /\ \E rolesOutcome \in ReadOutcomes, warehousesOutcome \in ReadOutcomes :
          resolved' = fetchUserWarehouses(rolesOutcome, warehousesOutcome)
    /\ UNCHANGED <<apiRoute, apiOpts, apiPc, apiAuth, apiReads, apiFailed, apiEvaluated,
                   apiLocal, apiResult, handlerCtx, handlerRan, response, auditLog>>
    /\ UNCHANGED <<dbVars, nonApiVars>>

WarehouseCodeOption == Warehouses \cup {"none"}

GetServerWarehouseFilter ==
    /\ ResolverIdle
    /\ \E rolesOutcome \in ReadOutcomes, warehousesOutcome \in ReadOutcomes,
          allowGlobalAccess \in BOOLEAN, warehouseCode \in WarehouseCodeOption :
          resolved' = getServerWarehouseFilter(rolesOutcome, warehousesOutcome,
                                               allowGlobalAccess, warehouseCode)
    /\ UNCHANGED <<apiRoute, apiOpts, apiPc, apiAuth, apiReads, apiFailed, apiEvaluated,
                   apiLocal, apiResult, handlerCtx, handlerRan, response, auditLog>>
    /\ UNCHANGED <<dbVars, nonApiVars>>

GetWarehouseFilter ==
    /\ ResolverIdle
    /\ \E rolesOutcome \in ReadOutcomes, warehousesOutcome \in ReadOutcomes,
          allowGlobalAccess \in BOOLEAN, warehouseCode \in WarehouseCodeOption :
          resolved' = getWarehouseFilter(rolesOutcome, warehousesOutcome,
                                         allowGlobalAccess, warehouseCode)
    /\ UNCHANGED <<apiRoute, apiOpts, apiPc, apiAuth, apiReads, apiFailed, apiEvaluated,
                   apiLocal, apiResult, handlerCtx, handlerRan, response, auditLog>>
    /\ UNCHANGED <<dbVars, nonApiVars>>

\* applyWarehouseFilter(query, userId): getServerWarehouseFilter({ userId })
ApplyWarehouseFilter ==
    /\ ResolverIdle
    /\ \E rolesOutcome \in ReadOutcomes, warehousesOutcome \in ReadOutcomes :
          resolved' = applyWarehouseFilter(
                          getServerWarehouseFilter(rolesOutcome, warehousesOutcome,
                                                   TRUE, "none"))
    /\ UNCHANGED <<apiRoute, apiOpts, apiPc, apiAuth, apiReads, apiFailed, apiEvaluated,
                   apiLocal, apiResult, handlerCtx, handlerRan, response, auditLog>>
    /\ UNCHANGED <<dbVars, nonApiVars>>

\* verifyWarehouseAccess(userId, warehouseCode)
VerifyWarehouseAccess ==
    /\ ResolverIdle
    /\ \E rolesOutcome \in ReadOutcomes, warehousesOutcome \in ReadOutcomes,
          warehouseCode \in Warehouses :
          resolved' = verifyWarehouseAccess(
                          getServerWarehouseFilter(rolesOutcome, warehousesOutcome,
                                                   TRUE, warehouseCode))
    /\ UNCHANGED <<apiRoute, apiOpts, apiPc, apiAuth, apiReads, apiFailed, apiEvaluated,
                   apiLocal, apiResult, handlerCtx, handlerRan, response, auditLog>>
    /\ UNCHANGED <<dbVars, nonApiVars>>

GetUserWarehousesDb ==
    /\ ResolverIdle
    /\ resolved' = [NoResolved EXCEPT !.fn = "get_user_warehouses",
                                      !.warehouses = get_user_warehouses]
    /\ UNCHANGED <<apiRoute, apiOpts, apiPc, apiAuth, apiReads, apiFailed, apiEvaluated,
                   apiLocal, apiResult, handlerCtx, handlerRan, response, auditLog>>
    /\ UNCHANGED <<dbVars, nonApiVars>>

----------------------------------------------------------------------------
\* Specification of the API side: Init draws the user's rows and the shape in
\* which the datastore client embeds the joined role.

ApiInit ==
    /\ joinShape \in {"object", "array"}
    /\ dbRoles \in SUBSET Roles
    /\ dbWarehouses \in SUBSET Warehouses
    /\ ApiIdle
    /\ MergeIdle
    /\ GuardIdle
    /\ HookIdle
    /\ RestIdle

ApiNext ==
    \/ ApiRequest
    \/ CheckApiGetUser
    \/ CheckApiReadRoles
    \/ CheckApiReadWarehouses
    \/ WithPermissionCheckReturn
    \/ ProtectApiRouteReturn
    \/ ProtectedHandler
    \/ CheckWarehouseGetUser
    \/ CheckWarehouseRpc
    \/ RoGetUser
    \/ RoHandler
    \/ GetUserWarehouseFilter
    \/ FetchUserWarehouses
    \/ GetServerWarehouseFilter
    \/ GetWarehouseFilter
    \/ ApplyWarehouseFilter
    \/ VerifyWarehouseAccess
    \/ GetUserWarehousesDb

SpecApi == ApiInit /\ [][ApiNext]_vars

\* the API side with an audit sink that can fail
LogFaultNext == ApiNext \/ WithPermissionCheckLogThrows

SpecApiLogFault == ApiInit /\ [][LogFaultNext]_vars

----------------------------------------------------------------------------
\* Decision functions of the usePermissions hook and the guard components,
\* over the state they close over

can(userId, permissions, permission, requireAll) ==
    IF userId = "none" THEN FALSE ELSE checkPermission(permissions, permission, requireAll)

canViewAll(userId, permissions, permission) ==
    IF userId = "none" THEN FALSE ELSE permissions[permission] = "all"

canViewOwn(userId, permissions, permission) ==
    IF userId = "none" THEN FALSE ELSE permissions[permission] \in {"true", "own", "all"}

hasRole(roles, role) == Includes(roles, role)

hasAnyOfRoles(roles, requiredRoles) == hasAnyRole(roles, requiredRoles)

hasAllOfRoles(roles, requiredRoles) ==
    \A i \in 1..Len(requiredRoles) : Includes(roles, requiredRoles[i])

\* canAccessWarehouse that reads an empty assignment list as no restriction
canAccessWarehouse_EmptyMeansAll(userId, roles, warehouses, warehouseCode) ==
    IF userId = "none" THEN FALSE
    ELSE IF userHasGlobalWarehouseAccess(roles) THEN TRUE
    ELSE Len(warehouses) = 0 \/ Includes(warehouses, warehouseCode)

canAccessWarehouse(userId, roles, warehouses, warehouseCode) ==
    IF userId = "none" THEN FALSE
    ELSE IF userHasGlobalWarehouseAccess(roles) THEN TRUE
    ELSE Includes(warehouses, warehouseCode)

\* PermissionGuard (components/guards): what it renders
PermissionGuard(userId, roles, permissions, isLoading, hideWhileLoading, props) ==
    IF isLoading /\ hideWhileLoading THEN "null"
    ELSE IF /\ props.requiredPermission # "none"
            /\ ~can(userId, permissions, props.requiredPermission, props.requireAll)
    THEN "fallback"
    ELSE IF /\ Len(props.requiredRoles) > 0
            /\ ~(IF props.requireAllRoles
                 THEN hasAllOfRoles(roles, props.requiredRoles)
                 ELSE hasAnyOfRoles(roles, props.requiredRoles))
    THEN "fallback"
    ELSE "children"

----------------------------------------------------------------------------
\* Specification of the guard evaluators: Init draws a context, each action
\* applies one evaluator to it under one requirement.

CapabilitySites == {"checkPermission", "can", "checkApiPermissions: permission"}

RoleSites == {"hasAnyRole", "hasAllRoles", "hasAnyOfRoles", "hasAllOfRoles",
              "checkApiPermissions: roles"}

\* the required role sets handed to the role guards, the empty one included
RequiredRoleLists == {ListOf(ALL_ROLES, S) : S \in SUBSET Roles}

\* the decision of the capability guard of a site
CapabilityDecision(site, roles, req) ==
    LET permissions == getEffectivePermissions(roles)
    IN  CASE site = "checkPermission" ->
               checkPermission(permissions, req.requiredPermission, req.requireAll)
          [] site = "can" ->
               can("u1", permissions, req.requiredPermission, req.requireAll)
          [] site = "checkApiPermissions: permission" ->
               ~PermissionCheckFails(permissions, req)

\* the decision of the role guard of a site
RoleDecision(site, roles, req) ==
    CASE site = "hasAnyRole" -> hasAnyRole(roles, req.requiredRoles)
      [] site = "hasAllRoles" -> hasAllRoles(roles, req.requiredRoles)
      [] site = "hasAnyOfRoles" -> hasAnyOfRoles(roles, req.requiredRoles)
      [] site = "hasAllOfRoles" -> hasAllOfRoles(roles, req.requiredRoles)
      [] site = "checkApiPermissions: roles" -> ~RoleCheckFails(roles, req)

GuardInit ==
    /\ gRoles \in RequiredRoleLists
    /\ gWarehouses \in {ListOf(ALL_WAREHOUSES, S) : S \in SUBSET Warehouses}
    /\ gSite = "none"
    /\ gReq = NoOptions
    /\ gAllow = FALSE
    /\ gAllowMore = [r \in Roles |-> FALSE]
    /\ DbIdle
    /\ ApiIdle
    /\ MergeIdle
    /\ HookIdle
    /\ RestIdle

EvalCapability ==
    /\ gSite = "none"
    /\ \E site \in CapabilitySites, permission \in Permissions, requireAll \in BOOLEAN :
          LET req == [NoOptions EXCEPT !.requiredPermission = permission,
                                       !.requireAll = requireAll]
          IN  /\ gSite' = site
              /\ gReq' = req
              /\ gAllow' = CapabilityDecision(site, gRoles, req)
              /\ gAllowMore' =
                    [r \in Roles |-> CapabilityDecision(site, Append(gRoles, r), req)]
    /\ UNCHANGED <<gRoles, gWarehouses>>
    /\ UNCHANGED nonGuardVars

EvalRole ==
    /\ gSite = "none"
    /\ \E site \in RoleSites, requiredRoles \in RequiredRoleLists :
          LET req == [NoOptions EXCEPT
                         !.requiredRoles = requiredRoles,
                         !.requireAllRoles = site \in {"hasAllRoles", "hasAllOfRoles"}]
          IN  /\ gSite' = site
              /\ gReq' = req
              /\ gAllow' = RoleDecision(site, gRoles, req)
              /\ gAllowMore' = [r \in Roles |-> RoleDecision(site, Append(gRoles, r), req)]
    /\ UNCHANGED <<gRoles, gWarehouses>>
    /\ UNCHANGED nonGuardVars

\* the role check of checkApiPermissions with requireAllRoles
EvalRoleApiAll ==
    /\ gSite = "none"
    /\ \E requiredRoles \in RequiredRoleLists :
          LET req == [NoOptions EXCEPT !.requiredRoles = requiredRoles,
                                       !.requireAllRoles = TRUE]
          IN  /\ gSite' = "checkApiPermissions: roles"
              /\ gReq' = req
              /\ gAllow' = ~RoleCheckFails(gRoles, req)
              /\ gAllowMore' = [r \in Roles |-> ~RoleCheckFails(Append(gRoles, r), req)]
    /\ UNCHANGED <<gRoles, gWarehouses>>
    /\ UNCHANGED nonGuardVars

EvalWarehouse ==
    /\ gSite = "none"
    /\ \E warehouseCode \in Warehouses :
          /\ gSite' = "canAccessWarehouse"
          /\ gReq' = [NoOptions EXCEPT !.warehouseCode = warehouseCode]
          /\ gAllow' = canAccessWarehouse("u1", gRoles, gWarehouses, warehouseCode)
          /\ gAllowMore' =
                [r \in Roles |->
                    canAccessWarehouse("u1", Append(gRoles, r), gWarehouses, warehouseCode)]
    /\ UNCHANGED <<gRoles, gWarehouses>>
    /\ UNCHANGED nonGuardVars

\* the props PermissionGuard is rendered with in this model
GuardProps ==
    {[NoOptions EXCEPT !.requiredPermission = p, !.requireAll = ra] :
        p \in {"none", "view_transactions", "manage_users"}, ra \in BOOLEAN}
    \cup {[NoOptions EXCEPT !.requiredRoles = rr, !.requireAllRoles = rar] :
            rr \in {<<>>, <<"admin">>, <<"staff", "supervisor">>}, rar \in BOOLEAN}

RenderPermissionGuard ==
    /\ gSite = "none"
    /\ \E props \in GuardProps :
          /\ gSite' = "PermissionGuard"
          /\ gReq' = props
          /\ gAllow' =
                (PermissionGuard("u1", gRoles, getEffectivePermissions(gRoles),
                                 FALSE, TRUE, props) = "children")
          /\ gAllowMore' =
                [r \in Roles |->
                    PermissionGuard("u1", Append(gRoles, r),
                                    getEffectivePermissions(Append(gRoles, r)),
                                    FALSE, TRUE, props) = "children"]
    /\ UNCHANGED <<gRoles, gWarehouses>>
    /\ UNCHANGED nonGuardVars

GuardNext ==
    \/ EvalCapability
    \/ EvalRole
    \/ EvalRoleApiAll
    \/ EvalWarehouse
    \/ RenderPermissionGuard

SpecGuard == GuardInit /\ [][GuardNext]_vars

----------------------------------------------------------------------------
\* Specification of the usePermissions hook: one mounted hook, the identity
\* useAuth reports, the fetches it has started and the user's rows, which an
\* administrator may change meanwhile.

\* the role and warehouse rows the user has in this specification
HookRoleSets == {{}, {"staff"}, {"admin"}}

HookWarehouseSets == {{}, {"DDD"}}

\* the identities useAuth can report
HookUsers == {"u1", "u2"}

HookTables == {"wms_user_roles", "wms_user_warehouses", "get_user_permissions"}

\* a fetchPermissionData call none of whose reads has returned: the user it was
\* started for and the three results Promise.all waits for
Pending ==
    [user |-> "none",
     rolesResult |-> [done |-> FALSE, roles |-> <<>>, error |-> "none"],
     warehousesResult |-> [done |-> FALSE, warehouses |-> <<>>, error |-> "none"],
     permissionsResult |-> [done |-> FALSE, permissions |-> EmptyRecord, error |-> "none"]]

\* fetchUserPermissions: the rpc of get_user_permissions over the rows read
fetchUserPermissions(outcome, rows) ==
    IF outcome = "ok"
    THEN [permissions |-> get_user_permissions(EmptyRecord, rows), error |-> "none"]
    ELSE [permissions |-> EmptyRecord, error |-> "Error"]

\* await Promise.all([...]) has all three results
AllRead(fetch) ==
    /\ fetch.rolesResult.done
    /\ fetch.warehousesResult.done
    /\ fetch.permissionsResult.done

\* variant: the error of the warehouse fetcher is not tested
FetchResult_IgnoresWarehouseError(rolesResult, warehousesResult, permissionsResult) ==
    IF rolesResult.error # "none" \/ permissionsResult.error # "none"
    THEN [failed |-> TRUE, roles |-> <<>>, permissions |-> EmptyRecord,
          warehouses |-> <<>>]
    ELSE [failed |-> FALSE,
          roles |-> rolesResult.roles,
          permissions |->
              IF permissionsResult.permissions # EmptyRecord
              THEN permissionsResult.permissions
              ELSE getEffectivePermissions(rolesResult.roles),
          warehouses |-> warehousesResult.warehouses]

\* fetchPermissionData after Promise.all: what the try block sets, or the
\* empty state of the catch block
FetchResult(rolesResult, warehousesResult, permissionsResult) ==
    IF \/ rolesResult.error # "none"
       \/ warehousesResult.error # "none"
       \/ permissionsResult.error # "none"
    THEN [failed |-> TRUE, roles |-> <<>>, permissions |-> EmptyRecord,
          warehouses |-> <<>>]
    ELSE [failed |-> FALSE,
          roles |-> rolesResult.roles,
          permissions |->
              IF permissionsResult.permissions # EmptyRecord
              THEN permissionsResult.permissions
              ELSE getEffectivePermissions(rolesResult.roles),
          warehouses |-> warehousesResult.warehouses]

\* fetchPermissionData up to its await
FetchStart ==
    IF hUser = "none"
    THEN /\ hRoles' = <<>>
         /\ hPermissions' = EmptyRecord
         /\ hWarehouses' = <<>>
         /\ hLoading' = FALSE
         /\ hOwner' = "none"
         /\ UNCHANGED <<hError, hFetches>>
    ELSE /\ Len(hFetches) < MaxInFlight
         /\ hLoading' = TRUE
         /\ hError' = "none"
         /\ hFetches' = Append(hFetches, [Pending EXCEPT !.user = hUser])
         /\ UNCHANGED <<hRoles, hPermissions, hWarehouses, hOwner>>

HookInit ==
    /\ joinShape \in {"object", "array"}
    /\ dbRoles \in HookRoleSets
    /\ dbWarehouses \in HookWarehouseSets
    /\ hUser \in {"none", "u1"}
    /\ hRoles = <<>>
    /\ hPermissions = EmptyRecord
    /\ hWarehouses = <<>>
    /\ hLoading = TRUE
    /\ hError = "none"
    /\ hEffect = TRUE
    /\ hFetches = <<>>
    /\ hChanges = 0
    /\ hOwner = "none"
    /\ ApiIdle
    /\ MergeIdle
    /\ GuardIdle
    /\ RestIdle

\* useEffect(() => { fetchPermissionData(); }, [fetchPermissionData])
HookEffect ==
    /\ hEffect
    /\ hEffect' = FALSE
    /\ FetchStart
    /\ UNCHANGED <<hUser, hChanges>>
    /\ UNCHANGED <<mergeVars, dbVars, apiVars, guardVars, restVars>>

\* refresh()
Refresh ==
    /\ FetchStart
    /\ UNCHANGED <<hUser, hEffect, hChanges>>
    /\ UNCHANGED <<mergeVars, dbVars, apiVars, guardVars, restVars>>

\* fetchUserRoles(userId) returns to the fetch
RolesRead(fetch, rolesOutcome) ==
    LET rolesResult == fetchUserRoles(rolesOutcome)
    IN  [fetch EXCEPT
            !.rolesResult =
                [done |-> TRUE, roles |-> rolesResult.roles, error |-> rolesResult.error]]

\* fetchUserWarehouses runs the read of wms_user_warehouses unless its own
\* fetchUserRoles found a global-access role
ReadsWarehouses(innerRolesOutcome) ==
    ~userHasGlobalWarehouseAccess(fetchUserRoles(innerRolesOutcome).roles)

\* fetchUserWarehouses(userId) returns to the fetch: its own fetchUserRoles,
\* then the read of wms_user_warehouses
WarehousesRead(fetch, innerRolesOutcome, warehousesOutcome) ==
    LET warehousesResult == fetchUserWarehouses(innerRolesOutcome, warehousesOutcome)
    IN  [fetch EXCEPT
            !.warehousesResult =
                [done |-> TRUE, warehouses |-> warehousesResult.warehouses,
                 error |-> warehousesResult.error]]

\* fetchUserPermissions(userId) returns to the fetch
PermissionsRead(fetch, permissionsOutcome, rows) ==
    LET permissionsResult == fetchUserPermissions(permissionsOutcome, rows)
    IN  [fetch EXCEPT
            !.permissionsResult =
                [done |-> TRUE, permissions |-> permissionsResult.permissions,
                 error |-> permissionsResult.error]]

\* the datastore answers fetchUserRoles of one fetch
FetchReadRoles ==
    /\ \E i \in 1..Len(hFetches), rolesOutcome \in {"ok", "error"} :
          /\ ~hFetches[i].rolesResult.done
          /\ hFetches' = [hFetches EXCEPT ![i] = RolesRead(@, rolesOutcome)]
    /\ UNCHANGED <<hUser, hRoles, hPermissions, hWarehouses, hLoading, hError, hEffect,
                   hChanges, hOwner>>
    /\ UNCHANGED <<mergeVars, dbVars, apiVars, guardVars, restVars>>

\* the datastore answers fetchUserWarehouses of one fetch
FetchReadWarehouses ==
    /\ \E i \in 1..Len(hFetches), innerRolesOutcome \in {"ok", "error"},
          warehousesOutcome \in {"ok", "error"} :
          /\ ~hFetches[i].warehousesResult.done
          /\ ReadsWarehouses(innerRolesOutcome) \/ warehousesOutcome = "ok"
          /\ hFetches' =
                [hFetches EXCEPT
                    ![i] = WarehousesRead(@, innerRolesOutcome, warehousesOutcome)]
    /\ UNCHANGED <<hUser, hRoles, hPermissions, hWarehouses, hLoading, hError, hEffect,
                   hChanges, hOwner>>
    /\ UNCHANGED <<mergeVars, dbVars, apiVars, guardVars, restVars>>

\* the datastore answers fetchUserPermissions of one fetch
FetchReadPermissions ==
    /\ \E i \in 1..Len(hFetches), permissionsOutcome \in {"ok", "error"},
          rows \in Orders(dbRoles) :
          /\ ~hFetches[i].permissionsResult.done
          /\ hFetches' =
                [hFetches EXCEPT ![i] = PermissionsRead(@, permissionsOutcome, rows)]
    /\ UNCHANGED <<hUser, hRoles, hPermissions, hWarehouses, hLoading, hError, hEffect,
                   hChanges, hOwner>>
    /\ UNCHANGED <<mergeVars, dbVars, apiVars, guardVars, restVars>>

\* the datastore answers the three fetchers of one fetch before anything else
\* happens
FetchReads ==
    /\ \E i \in 1..Len(hFetches) :
          /\ ~hFetches[i].rolesResult.done
          /\ ~hFetches[i].warehousesResult.done
          /\ ~hFetches[i].permissionsResult.done
          /\ \E rolesOutcome \in {"ok", "error"}, innerRolesOutcome \in {"ok", "error"},
                warehousesOutcome \in {"ok", "error"}, permissionsOutcome \in {"ok", "error"},
                rows \in Orders(dbRoles) :
                /\ ReadsWarehouses(innerRolesOutcome) \/ warehousesOutcome = "ok"
                /\ hFetches' =
                      [hFetches EXCEPT
                          ![i] = PermissionsRead(
                                     WarehousesRead(RolesRead(@, rolesOutcome),
                                                    innerRolesOutcome, warehousesOutcome),
                                     permissionsOutcome, rows)]
    /\ UNCHANGED <<hUser, hRoles, hPermissions, hWarehouses, hLoading, hError, hEffect,
                   hChanges, hOwner>>
    /\ UNCHANGED <<mergeVars, dbVars, apiVars, guardVars, restVars>>

\* fetchPermissionData after its await: try, catch and finally run to the end
\* before React renders, and the state updates they queue are committed together
FetchComplete ==
    /\ \E i \in 1..Len(hFetches) :
          /\ AllRead(hFetches[i])
          /\ LET result == FetchResult(hFetches[i].rolesResult,
                                       hFetches[i].warehousesResult,
                                       hFetches[i].permissionsResult)
             IN  /\ hError' = IF result.failed THEN "Error" ELSE hError
                 /\ hRoles' = result.roles
                 /\ hWarehouses' = result.warehouses
                 /\ hPermissions' = result.permissions
          /\ hLoading' = FALSE
          /\ hOwner' = hFetches[i].user
          /\ hFetches' = [j \in 1..(Len(hFetches) - 1) |->
                            IF j < i THEN hFetches[j] ELSE hFetches[j + 1]]
    /\ UNCHANGED <<hUser, hEffect, hChanges>>
    /\ UNCHANGED <<mergeVars, dbVars, apiVars, guardVars, restVars>>

\* useAuth reports another identity: the user signs in or out, or another
\* user signs in
IdentityChange ==
    /\ hUser' \in (HookUsers \cup {"none"}) \ {hUser}
    /\ hEffect' = TRUE
    /\ UNCHANGED <<hRoles, hPermissions, hWarehouses, hLoading, hError, hFetches, hChanges,
                   hOwner>>
    /\ UNCHANGED <<mergeVars, dbVars, apiVars, guardVars, restVars>>

\* an administrator changes the role or warehouse rows
AssignmentChange ==
    /\ hChanges < MaxChanges
    /\ hChanges' = hChanges + 1
    /\ \/ /\ dbRoles' \in HookRoleSets \ {dbRoles}
          /\ UNCHANGED dbWarehouses
       \/ /\ dbWarehouses' \in HookWarehouseSets \ {dbWarehouses}
          /\ UNCHANGED dbRoles
    /\ UNCHANGED joinShape
    /\ UNCHANGED <<hUser, hRoles, hPermissions, hWarehouses, hLoading, hError, hEffect,
                   hFetches, hOwner>>
    /\ UNCHANGED <<mergeVars, apiVars, guardVars, restVars>>

HookNext ==
    \/ HookEffect
    \/ Refresh
    \/ FetchReads
    \/ FetchComplete
    \/ IdentityChange
    \/ AssignmentChange

\* React runs a due effect, the datastore answers and the awaits resume;
\* refresh, sign-in, sign-out and assignment changes happen only if someone acts
SpecHook ==
    /\ HookInit
    /\ [][HookNext]_vars
    /\ WF_vars(HookEffect)
    /\ WF_vars(FetchReads)
    /\ WF_vars(FetchComplete)

\* One signed-in user whose rows stay as they are, with the three fetchers of
\* a build answered one by one
BuildInit ==
    /\ HookInit
    /\ hUser = "u1"

\* refresh() from an event handler: React has run the mount effect by then
BuildRefresh ==
    /\ ~hEffect
    /\ Len(hFetches) < MaxBuildsInFlight
    /\ Refresh

BuildNext ==
    \/ HookEffect
    \/ BuildRefresh
    \/ FetchReadRoles
    \/ FetchReadWarehouses
    \/ FetchReadPermissions
    \/ FetchComplete

SpecBuild == BuildInit /\ [][BuildNext]_vars

----------------------------------------------------------------------------
\* GET /api/transactions (app/api/transactions/route.ts)

\* the callers that own rows of ro_process
RowOwners == {"u1", "u2"}

\* ro_process as the handler's query sees it: a row per warehouse and owner
RoProcessRows == [warehouse : Warehouses, user_id : RowOwners]

\* searchParams.get("warehouse"): absent, empty, a warehouse code, another text
WarehouseParams == Warehouses \cup {"none", "", "XXX"}

\* the policy "Users can view transactions for accessible warehouses" of
\* ro_process for a row, auth.uid() being the signed-in user
RoProcessSelectPolicy(row) ==
    \E role \in dbRoles :
        \/ role \in {"admin", "gm", "ops_manager"}
        \/ \E wuw \in dbWarehouses : TRUE

\* ro_process as a session of the signed-in user sees it
VisibleRows == {row \in RoProcessRows : RoProcessSelectPolicy(row)}

\* variant: the query is never narrowed to the caller's own rows
TransactionsQuery_NoOwnerFilter(rows, allowedWarehouses, viewAll, userId) ==
    {row \in rows : Includes(allowedWarehouses, row.warehouse)}

\* .in("warehouse", allowedWarehouses), and .eq("user_id", userId) unless
\* the caller can view all
TransactionsQuery(rows, allowedWarehouses, viewAll, userId) ==
    {row \in rows :
        /\ Includes(allowedWarehouses, row.warehouse)
        /\ viewAll \/ row.user_id = userId}

TxRequest ==
    /\ apiPc = "idle"
    /\ resolved.fn = "none"
    /\ apiRoute' = "GET /api/transactions"
    /\ apiOpts' = RouteOptions("GET /api/transactions")
    /\ txParam' \in WarehouseParams
    /\ apiPc' = "auth"
    /\ UNCHANGED <<apiAuth, apiReads, apiFailed, apiEvaluated, apiLocal, apiResult,
                   handlerCtx, handlerRan, response, auditLog, resolved>>
    /\ UNCHANGED <<txReturned, rlsRows, sqlVars, roVars, dbVars, mergeVars, guardVars,
                   hookVars>>

\* the handler GET hands to withPermissionCheck
TransactionsGet ==
    /\ apiPc = "handler"
    /\ apiRoute = "GET /api/transactions"
    /\ LET warehouses == handlerCtx.warehouses
           warehouseFilter == txParam \notin {"none", ""}
           allowedWarehouses == IF warehouseFilter THEN <<txParam>> ELSE warehouses
           viewAll == handlerCtx.permissions["view_transactions"] = "all"
       IN  IF warehouseFilter /\ ~Includes(warehouses, txParam)
           THEN /\ response' =
                      [status |-> 403, code |-> "none",
                       error |-> "You do not have access to the specified warehouse"]
                /\ UNCHANGED <<handlerRan, txReturned>>
           ELSE /\ handlerRan' = TRUE
                /\ \E outcome \in {"ok", "error"} :
                      IF outcome = "ok"
                      THEN /\ txReturned' =
                                 TransactionsQuery(VisibleRows, allowedWarehouses,
                                                   viewAll, handlerCtx.userId)
                           /\ response' =
                                 [status |-> 200, code |-> "none", error |-> "none"]
                      ELSE /\ UNCHANGED txReturned
                           /\ response' =
                                 [status |-> 500, code |-> "none",
                                  error |-> "Failed to fetch transactions"]
    /\ apiPc' = "done"
    /\ UNCHANGED <<apiRoute, apiOpts, apiAuth, apiReads, apiFailed, apiEvaluated,
                   apiLocal, apiResult, handlerCtx, auditLog, resolved>>
    /\ UNCHANGED <<txParam, rlsRows, sqlVars, roVars, dbVars, mergeVars, guardVars,
                   hookVars>>

\* select * from ro_process in a session of the signed-in user
SelectRoProcess ==
    /\ apiPc \in {"idle", "done"}
    /\ rlsRows' = VisibleRows
    /\ UNCHANGED <<txParam, txReturned, sqlVars, roVars, apiVars, dbVars, mergeVars,
                   guardVars, hookVars>>

TxNext ==
    \/ TxRequest
    \/ SelectRoProcess
    \/ CheckApiGetUser
    \/ CheckApiReadRoles
    \/ CheckApiReadWarehouses
    \/ WithPermissionCheckReturn
    \/ TransactionsGet

SpecTx == ApiInit /\ [][TxNext]_vars

----------------------------------------------------------------------------
\* getWarehouseSqlFilter (lib/warehouse-isolation.ts) as a pure function

\* the lists of warehouse codes, repeated codes included
CodeLists == UNION {[1..n -> Warehouses] : n \in 0..MaxCodes}

\* whether a row whose warehouse column holds w satisfies the condition
RowSatisfies(filter, w) ==
    CASE filter.kind = "TRUE" -> TRUE
      [] filter.kind = "IN" -> Includes(filter.values, w)
      [] OTHER -> FALSE

SqlInit ==
    /\ sqlInput \in CodeLists
    /\ sqlFilter = NoSqlFilter
    /\ TxIdle
    /\ RoIdle
    /\ DbIdle
    /\ ApiIdle
    /\ MergeIdle
    /\ GuardIdle
    /\ HookIdle

GetWarehouseSqlFilter ==
    /\ sqlFilter = NoSqlFilter
    /\ sqlFilter' = getWarehouseSqlFilter(sqlInput)
    /\ UNCHANGED <<sqlInput, txVars, roVars, dbVars, apiVars, mergeVars, guardVars,
                   hookVars>>

SqlNext == GetWarehouseSqlFilter

SpecSql == SqlInit /\ [][SqlNext]_vars

----------------------------------------------------------------------------
\* The RO detail page (app/[locale]/ro/[id]/page.tsx) and the routes
\* PATCH /api/ro/dnpb and PATCH /api/ro/status it calls, for one order

statusFlow ==
    <<"QUEUE", "APPROVED", "PICKING", "PICK_VERIFIED", "DNPB_PROCESS",
      "READY_TO_SHIP", "IN_DELIVERY", "ARRIVED", "COMPLETED">>

\* statusFlow.findIndex(s => s.id === status), counted from 1; 0 for no match
findIndex(status) ==
    IF \E i \in 1..Len(statusFlow) : statusFlow[i] = status
    THEN CHOOSE i \in 1..Len(statusFlow) : statusFlow[i] = status
    ELSE 0

\* the texts typed into the DNPB field
DnpbTexts == {"", "DNPB-1"}

\* a || b of two strings
OrElse(a, b) == IF a # "" THEN a ELSE b

\* nextStatus of handleAdvanceStatus for a loaded order
nextStatus(p) == statusFlow[findIndex(roDetail[p].currentStatus) + 1]

\* how a PATCH request ends: the update is made and reported, the route
\* answers 401 or 500 without an update, or the update is made and the
\* response never arrives
PatchOutcomes == {"success", "failure", "lost"}

RoInit ==
    /\ RoIdle
    /\ TxIdle
    /\ SqlIdle
    /\ DbIdle
    /\ ApiIdle
    /\ MergeIdle
    /\ GuardIdle
    /\ HookIdle

\* fetchRODetail: the page loads the order
FetchRODetail ==
    \E p \in Pages :
        /\ pagePc[p] = "idle"
        /\ roDetail' =
              [roDetail EXCEPT ![p] = [currentStatus |-> roProcess.status,
                                       dnpbNumber |-> roProcess.dnpb_number]]
        /\ dnpbInput' =
              IF roProcess.dnpb_number # ""
              THEN [dnpbInput EXCEPT ![p] = roProcess.dnpb_number]
              ELSE dnpbInput
        /\ UNCHANGED <<roProcess, pagePc>>
        /\ UNCHANGED <<txVars, sqlVars, dbVars, apiVars, mergeVars, guardVars, hookVars>>

\* the user edits the DNPB field
SetDnpbInput ==
    \E p \in Pages, text \in DnpbTexts :
        /\ pagePc[p] = "idle"
        /\ roDetail[p] # NullDetail
        /\ dnpbInput' = [dnpbInput EXCEPT ![p] = text]
        /\ UNCHANGED <<roProcess, roDetail, pagePc>>
        /\ UNCHANGED <<txVars, sqlVars, dbVars, apiVars, mergeVars, guardVars, hookVars>>

\* handleAdvanceStatus up to its first fetch; the user confirms
HandleAdvanceStatus ==
    \E p \in Pages :
        /\ pagePc[p] = "idle"
        /\ roDetail[p] # NullDetail
        /\ findIndex(roDetail[p].currentStatus) < Len(statusFlow)
        /\ IF roDetail[p].currentStatus = "DNPB_PROCESS"
           THEN /\ OrElse(dnpbInput[p], roDetail[p].dnpbNumber) # ""
                /\ pagePc' = [pagePc EXCEPT ![p] = "dnpb"]
           ELSE pagePc' = [pagePc EXCEPT ![p] = "status"]
        /\ UNCHANGED <<roProcess, roDetail, dnpbInput>>
        /\ UNCHANGED <<txVars, sqlVars, dbVars, apiVars, mergeVars, guardVars, hookVars>>

\* PATCH /api/ro/dnpb and what handleAdvanceStatus does with its answer
PatchDnpb ==
    \E p \in Pages, outcome \in PatchOutcomes :
        /\ pagePc[p] = "dnpb"
        /\ roProcess' =
              IF outcome \in {"success", "lost"}
              THEN [roProcess EXCEPT
                       !.dnpb_number = OrElse(dnpbInput[p], roDetail[p].dnpbNumber)]
              ELSE roProcess
        /\ pagePc' = [pagePc EXCEPT ![p] = IF outcome = "success" THEN "status" ELSE "idle"]
        /\ UNCHANGED <<roDetail, dnpbInput>>
        /\ UNCHANGED <<txVars, sqlVars, dbVars, apiVars, mergeVars, guardVars, hookVars>>

\* update({ status }).eq('ro_id', roId) of PATCH /api/ro/status
PatchStatusUpdate(row, status) == [row EXCEPT !.status = status]

\* PATCH /api/ro/status and what handleAdvanceStatus does with its answer
PatchStatus ==
    \E p \in Pages, outcome \in PatchOutcomes :
        /\ pagePc[p] = "status"
        /\ roProcess' =
              IF outcome \in {"success", "lost"}
              THEN PatchStatusUpdate(roProcess, nextStatus(p))
              ELSE roProcess
        /\ IF outcome = "success"
           THEN /\ roDetail' =
                      [roDetail EXCEPT
                          ![p] = [currentStatus |-> nextStatus(p),
                                  dnpbNumber |-> OrElse(dnpbInput[p],
                                                        roDetail[p].dnpbNumber)]]
                /\ dnpbInput' = [dnpbInput EXCEPT ![p] = ""]
           ELSE UNCHANGED <<roDetail, dnpbInput>>
        /\ pagePc' = [pagePc EXCEPT ![p] = "idle"]
        /\ UNCHANGED <<txVars, sqlVars, dbVars, apiVars, mergeVars, guardVars, hookVars>>

RoNext ==
    \/ FetchRODetail
    \/ SetDnpbInput
    \/ HandleAdvanceStatus
    \/ PatchDnpb
    \/ PatchStatus

SpecRo == RoInit /\ [][RoNext]_vars

----------------------------------------------------------------------------
\* Claims

\* precedence of the access levels: all-access > own-only > granted > denied
Rank(v) ==
    CASE v = "all" -> 3 [] v = "own" -> 2 [] v = "true" -> 1 [] OTHER -> 0

HighestLevel(S) ==
    IF S = {} THEN "absent" ELSE CHOOSE v \in S : \A w \in S : Rank(w) <= Rank(v)

\* the levels the shipped matrix assigns to capability c over the held roles
AssignedLevels(held, c) == {PERMISSION_MATRIX[r][c] : r \in held}

\* some held role's record explicitly assigns c a non-denied level
ExplicitGrant(held, c) ==
    \E r \in held :
        /\ <<r, c>> \notin matrixOmits
        /\ PERMISSION_MATRIX[r][c] \in {"true", "own", "all"}

\* C2 (as stated): the capability guard with the basic requirement allows
\* exactly granted, own-only and all-access; with requireAll it allows only
\* all-access and denies granted, own-only, denied and an absent value.
C2_AllAccessOnlyByAll ==
    mOp = "check" =>
        guardResult =
            IF guardReq.requireAll
            THEN effective[guardReq.permission] = "all"
            ELSE effective[guardReq.permission] \in {"true", "own", "all"}

\* C2 (amended): the capability guard with the basic requirement allows
\* exactly granted, own-only and all-access; with requireAll it allows
\* exactly granted (true) and all-access, and denies own-only, denied and an
\* absent value.
C2_GuardLevels ==
    mOp = "check" =>
        guardResult =
            IF guardReq.requireAll
            THEN effective[guardReq.permission] \in {"true", "all"}
            ELSE effective[guardReq.permission] \in {"true", "own", "all"}

\* a requireAll check of an own-only capability was made and denied
C2_Witness ==
    /\ mOp = "check"
    /\ guardReq.requireAll
    /\ effective[guardReq.permission] = "own"
    /\ ~guardResult

\* C3: getEffectivePermissions returns for every capability the
\* highest-precedence level any held role's matrix assigns to it under
\* all > own > true > false; if any held role assigns "all" the result is
\* "all".
C3_MergeIsHighestLevel ==
    mOp = "merge" =>
        \A c \in Permissions :
            /\ effective[c] = HighestLevel(AssignedLevels(Range(inRoles), c))
            /\ ("all" \in AssignedLevels(Range(inRoles), c) => effective[c] = "all")

\* admin is merged before staff: the later, lower "own" must not replace "all"
C3_Witness ==
    /\ mOp = "merge"
    /\ inRoles = <<"admin", "staff">>
    /\ effective["view_transactions"] = "all"
    /\ effective["edit_transactions"] = "true"

\* C9: get_user_permissions returns for each capability the most permissive
\* value among the user's roles, the same map as getEffectivePermissions over
\* the same role set, whatever order the role rows are read in.
C9_SnapshotEqualsMerge ==
    mOp = "snapshot" => snapshot = getEffectivePermissions(inRoles)

\* C10: a capability is allowed only if some held role's matrix explicitly
\* assigns it a non-denied level: with zero roles every capability is denied,
\* and a capability a held role's record omits is not granted through the
\* omission, in getEffectivePermissions, checkPermission and has_permission.
C10_NoGrantByOmission ==
    /\ mOp = "check" /\ guardResult =>
          ExplicitGrant(Range(inRoles), guardReq.permission)
    /\ mOp = "merge" =>
          \A c \in Permissions :
              hasPermissionValue(effective[c], FALSE) => ExplicitGrant(Range(inRoles), c)
    /\ mOp = "has" =>
          \A c \in Permissions : dbHas[c] => ExplicitGrant(Range(inRoles), c)
    /\ (inRoles = <<>> /\ mOp = "check") => ~guardResult

\* supervisor's record omits edit_transactions and the guard denies it
C10_Witness ==
    /\ mOp = "check"
    /\ matrixOmits = {<<"supervisor", "edit_transactions">>}
    /\ inRoles = <<"staff", "supervisor">>
    /\ guardReq.permission = "edit_transactions"
    /\ ~guardResult

----------------------------------------------------------------------------
\* Claims about the API side (SpecApi)

\* checkApiPermissions has returned its result
CheckApiReturned == UsesCheckApi(apiRoute) /\ apiPc \in {"checked", "handler", "done"}

\* the result is a context built from the reads (allow, or a 403 of the checks)
ContextBuilt == CheckApiReturned /\ apiResult.statusCode \in {200, 403}

HoldsGlobalRole == dbRoles \cap GLOBAL_WAREHOUSE_ACCESS_ROLES # {}

\* C1: when the role-membership read or the warehouse-assignment read of a
\* context build fails, the result is not an allow, has empty roles, empty
\* permissions and empty warehouses, and carries an error value.
C1_ReadFailureIsDenialSafe ==
    (CheckApiReturned /\ apiFailed # {}) =>
        /\ ~apiResult.allowed
        /\ apiResult.roles = <<>>
        /\ apiResult.permissions = EmptyRecord
        /\ apiResult.warehouses = <<>>
        /\ apiResult.error # "none"

\* C4: for a user holding a global-access role every warehouse resolver that
\* reports no error returns the full set DDD, LJBB, MBB, UBB, with the
\* global-access flag true where the resolver has one.
C4_GlobalRoleResolvesToAllWarehouses ==
    HoldsGlobalRole =>
        /\ (/\ resolved.fn \in {"getUserWarehouseFilter", "fetchUserWarehouses",
                                "get_user_warehouses"}
            /\ resolved.error = "none")
             => /\ resolved.warehouses = ALL_WAREHOUSES
                /\ resolved.hasAllAccess \in {"true", "n/a"}
        /\ ContextBuilt => apiResult.warehouses = ALL_WAREHOUSES

\* C5: for a user holding no global-access role every resolver that reports a
\* context returns exactly the warehouse codes assigned in wms_user_warehouses,
\* with the global-access flag false where the resolver has one.
C5_NonGlobalResolvesToAssigned ==
    ~HoldsGlobalRole =>
        /\ (/\ resolved.fn \in {"getUserWarehouseFilter", "fetchUserWarehouses",
                                "getServerWarehouseFilter"}
            /\ resolved.error = "none")
             => /\ Range(resolved.warehouses) = dbWarehouses
                /\ resolved.hasAllAccess \in {"false", "n/a"}
        /\ ContextBuilt => Range(apiResult.warehouses) = dbWarehouses

\* C6: on every API route of the application the handler reaches the datastore
\* only after a guard has evaluated the operation's capability or role
\* requirement and allowed the caller.
C6_EveryRouteGuardsFirst ==
    (handlerRan /\ apiRoute \in GuardedRoutes \cup RoRoutes) =>
        /\ apiResult.allowed
        /\ apiEvaluated # {}

\* C7: withPermissionCheck invokes the handler only when checkApiPermissions
\* returned allowed = true, with the userId, roles, permissions and warehouses
\* of that result; on a deny it answers with the result's status code and a
\* reason code, and the handler is not invoked.
C7_HandlerOnlyAfterAllow ==
    UsesWrapper(apiRoute) =>
        /\ handlerCtx.invoked =>
             /\ apiResult.allowed
             /\ apiPc \in {"handler", "done"}
             /\ handlerCtx.userId = apiResult.userId
             /\ handlerCtx.roles = apiResult.roles
             /\ handlerCtx.permissions = apiResult.permissions
             /\ handlerCtx.warehouses = apiResult.warehouses
        /\ handlerRan => handlerCtx.invoked
        /\ (apiPc = "done" /\ ~apiResult.allowed) =>
             /\ ~handlerCtx.invoked
             /\ response.status = apiResult.statusCode
             /\ response.status \in {401, 403, 500}
             /\ response.code = IF response.status = 401 THEN "UNAUTHORIZED" ELSE "FORBIDDEN"

C7_Witness ==
    /\ apiRoute = "GET /api/transactions"
    /\ handlerCtx.invoked
    /\ handlerRan
    /\ handlerCtx.roles = <<"staff">>
    /\ handlerCtx.permissions["view_transactions"] = "own"
    /\ handlerCtx.warehouses = <<"DDD", "MBB">>

\* C8: when no user is resolved (no session, or an authentication error),
\* checkApiPermissions and checkWarehouseAccess return a 401 denial with no
\* role, warehouse or permission read issued and no requirement evaluated.
C8_UnauthenticatedDeniedFirst ==
    (/\ apiAuth \in {"none", "authError"}
     /\ (UsesCheckApi(apiRoute) \/ apiRoute = "checkWarehouseAccess")) =>
        /\ apiPc \in {"checked", "done"}
        /\ ~apiResult.allowed
        /\ apiResult.statusCode = 401
        /\ apiReads = {}
        /\ apiEvaluated = {}
        /\ ~handlerCtx.invoked
        /\ ~handlerRan

C8_Witness ==
    /\ apiRoute = "POST /api/transactions"
    /\ apiAuth = "authError"
    /\ dbRoles = {"admin"}
    /\ apiPc = "done"
    /\ response.status = 401
    /\ response.code = "UNAUTHORIZED"

----------------------------------------------------------------------------
\* Claims about the guard evaluators (SpecGuard) and the merge (SpecMerge)

\* the context left by a failed build: no roles, no permissions, no warehouses
DenialSafe == gRoles = <<>> /\ gWarehouses = <<>>

\* the evaluation was handed a requirement: a capability, a warehouse code, or
\* a required role set with at least one role
NamesRequirement ==
    \/ gReq.requiredPermission # "none"
    \/ gReq.warehouseCode # "none"
    \/ Len(gReq.requiredRoles) > 0

\* C11 (as stated): against a denial-safe context every guard evaluator
\* returns a non-allow result, for every capability at either level, for every
\* required role set in any-of and all-of mode, and for every warehouse code.
C11_DenialSafeContextDeniesAll ==
    (DenialSafe /\ gSite # "none") => ~gAllow

\* C11 (amended): against a denial-safe context every guard evaluator denies
\* every capability at either level, every warehouse code and every non-empty
\* required role set in either mode; handed an empty required role set (or, for
\* PermissionGuard, no requirement at all) the role guards allow.
C11_DenialSafeContextDenies ==
    (DenialSafe /\ gSite # "none") => (gAllow <=> ~NamesRequirement)

C11_Witness ==
    /\ DenialSafe
    /\ gSite = "canAccessWarehouse"
    /\ gReq.warehouseCode = "UBB"
    /\ ~gAllow

\* the role guard's decision as the set relation between held and required roles
HoldsSomeOf(roles, requiredRoles) == Range(roles) \cap Range(requiredRoles) # {}

HoldsAllOf(roles, requiredRoles) == Range(requiredRoles) \subseteq Range(roles)

RoleGuardEvaluated == gSite \in RoleSites

\* C13 (as stated): the role guard allows in any-of mode exactly when the user
\* holds at least one role of the required set, and in all-of mode exactly when
\* the user holds every role of the required set, at every site.
C13_RoleGuardIsMembership ==
    RoleGuardEvaluated =>
        (gAllow <=> IF gReq.requireAllRoles
                    THEN HoldsAllOf(gRoles, gReq.requiredRoles)
                    ELSE HoldsSomeOf(gRoles, gReq.requiredRoles))

\* C13 (amended): in any-of mode the role guard allows exactly when the
\* required set is empty or the user holds at least one of its roles; in all-of
\* mode exactly when the user holds every role of the set; hasAnyRole /
\* hasAllRoles, hasAnyOfRoles / hasAllOfRoles and the role check of
\* checkApiPermissions decide alike.
C13_RoleGuardDecision ==
    RoleGuardEvaluated =>
        (gAllow <=> IF gReq.requireAllRoles
                    THEN HoldsAllOf(gRoles, gReq.requiredRoles)
                    ELSE \/ gReq.requiredRoles = <<>>
                         \/ HoldsSomeOf(gRoles, gReq.requiredRoles))

C13_Witness ==
    /\ gSite = "hasAnyOfRoles"
    /\ gRoles = <<"supervisor", "gm">>
    /\ gReq.requiredRoles = <<"staff", "gm">>
    /\ gAllow

\* C16: the map getEffectivePermissions returns depends only on the set of
\* held roles: every order of the roles, and the list merged with itself, give
\* the same map.
C16_MergeDependsOnRoleSetOnly ==
    mOp = "merge" =>
        /\ \A rows \in Orders(Range(inRoles)) : getEffectivePermissions(rows) = effective
        /\ getEffectivePermissions(inRoles \o inRoles) = effective

C16_Witness ==
    /\ mOp = "merge"
    /\ inRoles = <<"gm", "staff", "gm">>
    /\ effective = getEffectivePermissions(<<"staff", "gm">>)
    /\ effective["view_transactions"] = "all"

----------------------------------------------------------------------------
\* Claims about the audit call (SpecApi, SpecApiLogFault)

\* the request ended in a deny of checkApiPermissions, handed back by
\* withPermissionCheck or protectApiRoute
ApiDenyReturned ==
    /\ UsesWrapper(apiRoute) \/ apiRoute = "protectApiRoute"
    /\ apiPc = "done"
    /\ ~apiResult.allowed

\* C14: every deny outcome at the API boundary (401, 403, 500; through
\* withPermissionCheck or through protectApiRoute) triggers one
\* logPermissionFailure call for that denial.
C14_EveryApiDenyIsAudited ==
    ApiDenyReturned => auditLog = 1

\* C15: when logPermissionFailure throws while withPermissionCheck reports a
\* deny, the caller still receives the deny response with the check's status
\* and reason code, and the handler is not invoked.
C15_LogFailureKeepsDenyResponse ==
    (UsesWrapper(apiRoute) /\ ~apiResult.allowed /\ apiPc \in {"done", "threw"}) =>
        /\ response.status = apiResult.statusCode
        /\ response.code = IF apiResult.statusCode = 401 THEN "UNAUTHORIZED" ELSE "FORBIDDEN"
        /\ ~handlerCtx.invoked
        /\ ~handlerRan

----------------------------------------------------------------------------
\* Claims about the warehouse guard and the query filters (SpecApi)

\* the accessible-warehouse set of the user's rows, as the resolver defines it
AccessibleWarehouses == IF HoldsGlobalRole THEN Warehouses ELSE dbWarehouses

\* the hook's canAccessWarehouse over the context a successful build holds
HookCanAccessWarehouse(warehouseCode) ==
    canAccessWarehouse("u1", fetchUserRoles("ok").roles,
                       fetchUserWarehouses("ok", "ok").warehouses, warehouseCode)

\* C12: the warehouse guard allows a code exactly when it is in the user's
\* accessible-warehouse set; canAccessWarehouse, verifyWarehouseAccess and
\* has_warehouse_access decide alike for the same roles and assignments.
C12_WarehouseGuardsAgree ==
    (resolved.fn = "verifyWarehouseAccess" /\ resolved.failed = {}) =>
        LET code == resolved.warehouseCode
            allowed == code \in AccessibleWarehouses
        IN  /\ has_warehouse_access(code) = allowed
            /\ (resolved.verified = "true") = allowed
            /\ HookCanAccessWarehouse(code) = allowed

\* C18: for a user with no global-access role and no warehouse assignment the
\* filters report no access, not all access and not an error: hasAccess false,
\* accessibleWarehouses empty, no error value; applyWarehouseFilter yields no
\* query and getWarehouseSqlFilter yields FALSE.
C18_ZeroWarehousesIsNoAccess ==
    (/\ ~HoldsGlobalRole
     /\ dbWarehouses = {}
     /\ resolved.fn \in {"getWarehouseFilter", "getServerWarehouseFilter",
                         "applyWarehouseFilter"}
     /\ resolved.failed = {}) =>
        /\ ~resolved.hasAccess
        /\ resolved.warehouses = <<>>
        /\ resolved.error = "none"
        /\ resolved.fn = "applyWarehouseFilter" => resolved.query = "null"
        /\ getWarehouseSqlFilter(resolved.warehouses).kind = "FALSE"

----------------------------------------------------------------------------
\* Claims about the usePermissions hook (SpecHook)

\* the hook's roles and warehouses are those of the user's current rows
ContextIsCurrent ==
    /\ Range(hRoles) = dbRoles
    /\ Range(hWarehouses) = AccessibleWarehouses

\* C19: after the user's role or warehouse assignments change in the
\* datastore, the context the hook holds is recomputed and eventually equals
\* the context derived from the new assignments (unless the user signed out or
\* the build reported an error).
C19_ContextFollowsAssignments ==
    joinShape = "object" =>
        []<>(hUser = "none" \/ hError # "none" \/ ContextIsCurrent)

\* C20: whenever the hook has no user identity, every UI decision function
\* denies: can, canViewAll, canViewOwn, hasRole and the isAdmin-style flags,
\* hasAnyOfRoles and hasAllOfRoles over a non-empty set, canAccessWarehouse.
C20_NoIdentityDeniesAll ==
    hUser = "none" =>
        /\ \A p \in Permissions :
              /\ ~can(hUser, hPermissions, p, FALSE)
              /\ ~can(hUser, hPermissions, p, TRUE)
              /\ ~canViewAll(hUser, hPermissions, p)
              /\ ~canViewOwn(hUser, hPermissions, p)
        /\ \A r \in Roles : ~hasRole(hRoles, r)
        /\ \A requiredRoles \in RequiredRoleLists \ {<<>>} :
              /\ ~hasAnyOfRoles(hRoles, requiredRoles)
              /\ ~hasAllOfRoles(hRoles, requiredRoles)
        /\ \A w \in Warehouses : ~canAccessWarehouse(hUser, hRoles, hWarehouses, w)

----------------------------------------------------------------------------
\* the level of view_transactions the caller's assigned roles give
CallerViewLevel ==
    getEffectivePermissions(ListOf(ALL_ROLES, dbRoles))["view_transactions"]

TxAnswered == apiRoute = "GET /api/transactions" /\ apiPc = "done"

----------------------------------------------------------------------------
\* the message texts of errors of the datastore, the identity provider or a throw
RawErrorTexts == {"error.message", "authError.message"}

\* C22: no error or deny response body carries the message text of an error
\* returned by the datastore or the identity provider or thrown internally.
C22_NoRawErrorInBody ==
    (apiPc = "done" /\ response.status >= 400) => response.error \notin RawErrorTexts

----------------------------------------------------------------------------
\* the three fields of the context as the hook shows them
ContextFields == <<hRoles, hPermissions, hWarehouses>>

EmptyFields == <<<<>>, EmptyRecord, <<>>>>

AnyReadError(fetch) ==
    \/ fetch.rolesResult.error # "none"
    \/ fetch.warehousesResult.error # "none"
    \/ fetch.permissionsResult.error # "none"

\* the fields a build with these three results is to show
FieldsOf(fetch) ==
    IF AnyReadError(fetch)
    THEN EmptyFields
    ELSE <<fetch.rolesResult.roles,
           IF fetch.permissionsResult.permissions # EmptyRecord
           THEN fetch.permissionsResult.permissions
           ELSE getEffectivePermissions(fetch.rolesResult.roles),
           fetch.warehousesResult.warehouses>>

\* the build at position i of hFetches ends in this step
BuildEnds(i) ==
    /\ Len(hFetches') = Len(hFetches) - 1
    /\ \A j \in 1..Len(hFetches') :
          hFetches'[j] = IF j < i THEN hFetches[j] ELSE hFetches[j + 1]

\* C23: the context fields are written only when a build ends, all three of
\* whose reads have returned by then, and all three fields are then those of
\* that build; when one of its reads reported an error, none of its results is
\* published. (Without an identity the fields are emptied.)
C23_ContextPublishedWhole ==
    [][/\ Len(hFetches') < Len(hFetches) =>
             \E i \in 1..Len(hFetches) :
                /\ BuildEnds(i)
                /\ AllRead(hFetches[i])
                /\ ContextFields' = FieldsOf(hFetches[i])
       /\ (ContextFields' # ContextFields /\ Len(hFetches') >= Len(hFetches)) =>
             (hUser = "none" /\ ContextFields' = EmptyFields)]_vars

\* the context shows an earlier build whole while the next build has one
\* failed read and still waits for another
C23_Witness ==
    /\ hRoles = <<"staff">>
    /\ hWarehouses = <<"DDD">>
    /\ hPermissions["view_transactions"] = "own"
    /\ Len(hFetches) = 1
    /\ hFetches[1].rolesResult.error # "none"
    /\ ~hFetches[1].permissionsResult.done

\* the calls one build has made of a table of the datastore so far
ReadsMade(fetch, t) ==
    CASE t = "wms_user_roles" ->
           (IF fetch.rolesResult.done THEN 1 ELSE 0)
           + (IF fetch.warehousesResult.done THEN 1 ELSE 0)
      [] t = "wms_user_warehouses" -> IF fetch.warehousesResult.done THEN 1 ELSE 0
      [] t = "get_user_permissions" -> IF fetch.permissionsResult.done THEN 1 ELSE 0

\* C24: within one build no datastore read is made more than once.
C24_OneAttemptPerRead ==
    \A i \in 1..Len(hFetches) : \A t \in HookTables : ReadsMade(hFetches[i], t) <= 1

\* C26: whenever the hook reports a settled context without error for an
\* identity, the context fields are the results of a fetch issued for it.
C26_ContextBelongsToIdentity ==
    (hUser # "none" /\ ~hLoading /\ hError = "none") => hOwner = hUser

----------------------------------------------------------------------------
\* C25: the SELECT policy of ro_process lets the signed-in user read a row
\* only if the user holds a global-access role or the row's warehouse is among
\* the warehouses assigned to the user.
C25_PolicyIsolatesWarehouses ==
    \A row \in rlsRows : HoldsGlobalRole \/ row.warehouse \in dbWarehouses

----------------------------------------------------------------------------
\* C27: the filter getWarehouseFilter and getServerWarehouseFilter return for a
\* query names only warehouses of the returned accessibleWarehouses, also when
\* a specific warehouseCode was requested.
C27_FilterWithinAccessible ==
    resolved.fn \in {"getWarehouseFilter", "getServerWarehouseFilter"} =>
        Range(resolved.filterValue) \subseteq Range(resolved.warehouses)

\* C28: for every list of codes, repeated codes included, a row satisfies the
\* condition getWarehouseSqlFilter returns exactly when its warehouse is a
\* member of the list.
C28_SqlFilterIsMembership ==
    sqlFilter # NoSqlFilter =>
        \A w \in Warehouses : RowSatisfies(sqlFilter, w) <=> w \in Range(sqlInput)

----------------------------------------------------------------------------
\* C29: the status stored for an order only ever moves one stage forward
\* along statusFlow, whatever the interleaving of handleAdvanceStatus on several
\* pages; it never moves back, skips a stage or leaves COMPLETED.
C29_StatusMovesOneStageForward ==
    [][roProcess'.status # roProcess.status =>
          findIndex(roProcess'.status) = findIndex(roProcess.status) + 1]_vars

\* C30: an order leaves DNPB_PROCESS by handleAdvanceStatus only with a
\* non-empty DNPB number saved for it; the status request of a page showing
\* DNPB_PROCESS is sent only after the save, and the displayed status changes
\* only when the status update reported success.
C30_DnpbSavedBeforeLeaving ==
    [][/\ (roProcess.status = "DNPB_PROCESS" /\ roProcess'.status # "DNPB_PROCESS")
             => roProcess.dnpb_number # ""
       /\ \A p \in Pages :
             /\ (pagePc'[p] = "status" /\ roDetail[p].currentStatus = "DNPB_PROCESS")
                   => roProcess'.dnpb_number # ""
             /\ (pagePc[p] # "idle" /\ roDetail'[p] # roDetail[p])
                   => /\ pagePc[p] = "status"
                      /\ roProcess'.status = roDetail'[p].currentStatus]_vars

====
